---- MODULE Spec2Model ----
(***************************************************************************)
(* Conversation orchestration of the Devy career advisor:                  *)
(*   app/services/chat_service.py  (ChatService, one transaction per turn) *)
(*   app/services/ai_service.py    (AIService, reply/assessment gateway)   *)
(*   app/utils/validation.py       (sanitize_string)                       *)
(*   app/schemas.py, app/models.py (assessment schema, tables)             *)
(*                                                                         *)
(* Strings are tuples of one-character strings.  A text whose body is the  *)
(* single token "{}" stands for a serialized JSON object; the object it    *)
(* serializes is carried in the text's doc field.                          *)
(***************************************************************************)
EXTENDS Integers, Sequences, FiniteSets, TLC

\* ---------------------------------------------------------------- bounds
MaxTurns == 2          \* chat turns started in one behaviour
MaxHist == 3           \* length of a drawn chat history (gateway harness)
MaxLog == 7            \* committed turns in a drawn message table
MaxResolveCalls == 3   \* calls of ensure_session_exists in one transaction
MaxRun == 6            \* length of a run of one character in a drawn message
MaxText == 5           \* length of a drawn text to sanitize

\* ------------------------------------------------------- program constants
NumCareerPaths == 6    \* len(CAREER_PATHS)
HistoryLimit == 10     \* get_chat_history(limit=10)
SanitizeMaxLength == 1000 \* sanitize_string(max_length=1000)
MinScore == 0          \* Field(ge=0)
MaxScore == 100        \* Field(le=100)

Tokens == {"s1", "s2"}
Procs == {1, 2}

Max(S) == CHOOSE m \in S : \A x \in S : x <= m
MinOf(a, b) == IF a <= b THEN a ELSE b

\* ---------------------------------------------------------------- strings
IsSpace(c) == c \in {" ", "\t", "\n", "\r"}
IsDigit(c) == c \in {"0", "1", "2", "3", "4", "5", "6", "7", "8", "9"}

RECURSIVE LStrip(_)
LStrip(s) == IF s # <<>> /\ IsSpace(Head(s)) THEN LStrip(Tail(s)) ELSE s

RECURSIVE RStrip(_)
RStrip(s) ==
    IF s # <<>> /\ IsSpace(s[Len(s)]) THEN RStrip(SubSeq(s, 1, Len(s) - 1)) ELSE s

\* str.strip()
Strip(s) == RStrip(LStrip(s))

\* re.sub(r"\s+", " ", s)
RECURSIVE CollapseWs(_)
CollapseWs(s) ==
    IF s = <<>> THEN <<>>
    ELSE IF IsSpace(Head(s)) THEN <<" ">> \o CollapseWs(LStrip(s))
    ELSE <<Head(s)>> \o CollapseWs(Tail(s))

\* s[:n]
Truncate(s, n) == SubSeq(s, 1, MinOf(n, Len(s)))

\* position of the first ">" of s, 0 when there is none
FirstGt(s) ==
    IF \E i \in 1..Len(s) : s[i] = ">"
    THEN CHOOSE i \in 1..Len(s) : s[i] = ">" /\ \A j \in 1..(i - 1) : s[j] # ">"
    ELSE 0

\* re.sub(r"<[^>]*>", "", s): leftmost matches, left to right
RECURSIVE RemoveTags(_)
RemoveTags(s) ==
    IF s = <<>> THEN <<>>
    ELSE IF Head(s) = "<" /\ FirstGt(s) > 0
         THEN RemoveTags(SubSeq(s, FirstGt(s) + 1, Len(s)))
         ELSE <<Head(s)>> \o RemoveTags(Tail(s))

sanitize_string(text, max_length) ==
    RemoveTags(Truncate(CollapseWs(Strip(text)), max_length))

\* ----------------------------------------------------- input validation
IsHex(c) ==
    IsDigit(c) \/ c \in {"a", "b", "c", "d", "e", "f", "A", "B", "C", "D", "E", "F"}

\* the length of the pattern 8-4-4-4-12 and the places of its hyphens
UuidLength == 36
HyphenPositions == {9, 14, 19, 24}

\* validate_session_id: uuid_pattern.match(session_id), the pattern being
\* anchored by ^ and $, case ignored; $ matches at the end of the string
\* and also just before a newline that ends the string
validate_session_id(session_id) ==
    /\ Len(session_id) >= UuidLength
    /\ \A i \in 1..UuidLength :
          IF i \in HyphenPositions THEN session_id[i] = "-"
          ELSE IsHex(session_id[i])
    /\ \/ Len(session_id) = UuidLength
       \/ Len(session_id) = UuidLength + 1 /\ session_id[UuidLength + 1] = "\n"

MaxMessageLength == 5000   \* DEFAULT_CONFIG["MAX_MESSAGE_LENGTH"]
MinMessageLength == 1      \* DEFAULT_CONFIG["MIN_MESSAGE_LENGTH"]

\* len(s.strip())
StrippedLength(s) ==
    LET kept == {i \in 1..Len(s) : ~IsSpace(s[i])}
    IN IF kept = {} THEN 0
       ELSE Max(kept) - (CHOOSE i \in kept : \A j \in kept : i <= j) + 1

\* s.count(c)
CountChar(s, c) == Cardinality({i \in 1..Len(s) : s[i] = c})

ValidResult(ok, reason) == [ok |-> ok, reason |-> reason]

\* validate_user_message: the checks in the order of the code; the spam
\* check counts the first character, message.count(message[0]) > len * 0.8
validate_user_message(message) ==
    IF StrippedLength(message) < MinMessageLength
    THEN ValidResult(FALSE, "Message cannot be empty")
    ELSE IF Len(message) > MaxMessageLength
    THEN ValidResult(FALSE, "Message is too long")
    ELSE IF 10 * CountChar(message, message[1]) > 8 * Len(message)
    THEN ValidResult(FALSE, "Message appears to be spam")
    ELSE ValidResult(TRUE, "")

\* ------------------------------------------------------------ JSON values
OptNone == [some |-> FALSE, v |-> <<>>]
OptSome(s) == [some |-> TRUE, v |-> s]

TopKeys == {"user_summary", "career_recommendations", "overall_assessment_notes"}
RecKeys == {"career_name", "match_score", "reasoning", "suggested_next_steps"}

\* one element of career_recommendations as it stands in the JSON text:
\* the keys it has, and the JSON kind and value of match_score
\* ("int": a JSON integer, "numstr": a JSON string of decimal digits,
\*  "text": any other JSON value)
RecDoc(keys, kind, score) == [keys |-> keys, score_kind |-> kind, match_score |-> score]

\* a parsed JSON document, flattened to the parts the code looks at
NoDoc ==
    [object |-> FALSE, keys |-> {}, has_name |-> FALSE, name |-> <<>>,
     age |-> OptNone, education_level |-> OptNone,
     technical_knowledge |-> OptNone, top_subjects |-> <<>>,
     subject_aspects |-> OptNone, interests_dreams |-> OptNone,
     recs |-> <<>>]

ObjectToken == <<"{}">>

Prose(chars) == [chars |-> chars, doc |-> NoDoc]
JsonText(doc) == [chars |-> ObjectToken, doc |-> doc]
EmptyText == Prose(<<>>)

\* json.loads(text): an object token yields its document, a run of decimal
\* digits (with optional surrounding whitespace) yields a number, anything
\* else raises JSONDecodeError
json_loads(text) ==
    IF text.chars = ObjectToken
    THEN [ok |-> TRUE, doc |-> text.doc]
    ELSE IF Strip(text.chars) # <<>>
            /\ \A i \in 1..Len(Strip(text.chars)) : IsDigit(Strip(text.chars)[i])
         THEN [ok |-> TRUE, doc |-> NoDoc]
         ELSE [ok |-> FALSE, doc |-> NoDoc]

\* --------------------------------------------------------------- schemas
\* CareerRecommendationItem: career_name, match_score and reasoning are
\* required, suggested_next_steps has a default; match_score is an int
\* (a string of digits is coerced) with ge=0, le=100
CareerRecommendationItemValid(r) ==
    /\ {"career_name", "match_score", "reasoning"} \subseteq r.keys
    /\ r.score_kind \in {"int", "numstr"}
    /\ r.match_score >= MinScore
    /\ r.match_score <= MaxScore

\* a schema that also insists on a name that is not empty
model_validate_ok_named(doc) ==
    /\ doc.object
    /\ TopKeys \subseteq doc.keys
    /\ doc.has_name /\ doc.name # <<>>
    /\ \A i \in 1..Len(doc.recs) : CareerRecommendationItemValid(doc.recs[i])

\* RecommendationResponse.model_validate(parsed): raises ValidationError
\* unless the three fields are there and each validates; the length of
\* career_recommendations and the emptiness of name are not constrained
model_validate_ok(doc) ==
    /\ doc.object
    /\ TopKeys \subseteq doc.keys
    /\ doc.has_name
    /\ \A i \in 1..Len(doc.recs) : CareerRecommendationItemValid(doc.recs[i])

NoPayload ==
    [name |-> <<>>, age |-> OptNone, education_level |-> OptNone,
     technical_knowledge |-> OptNone, top_subjects |-> <<>>,
     subject_aspects |-> OptNone, interests_dreams |-> OptNone,
     scores |-> <<>>]

\* the RecommendationResponse built from a validated document: the user
\* summary as given and one validated item (its score) per recommendation
model_validate(doc) ==
    [name |-> doc.name, age |-> doc.age, education_level |-> doc.education_level,
     technical_knowledge |-> doc.technical_knowledge,
     top_subjects |-> doc.top_subjects,
     subject_aspects |-> doc.subject_aspects,
     interests_dreams |-> doc.interests_dreams,
     scores |-> [i \in 1..Len(doc.recs) |-> doc.recs[i].match_score]]

\* one entry of the error list of validate_assessment_data
ShapeError(kind, index, field) == [kind |-> kind, index |-> index, field |-> field]

\* validate_assessment_data, lines 132-154: the checks on recommendation i
RecommendationErrors(rec, i) ==
    {ShapeError("missing_field", i, f) : f \in RecKeys \ rec.keys}
    \cup (IF "match_score" \in rec.keys
             /\ (rec.score_kind # "int" \/ rec.match_score < MinScore
                                        \/ rec.match_score > MaxScore)
          THEN {ShapeError("match_score", i, "match_score")} ELSE {})

\* validate_assessment_data: the errors it collects; the recommendations
\* are looked at one by one only when there are NumCareerPaths of them
validate_assessment_data(doc) ==
    LET errors ==
          IF ~doc.object THEN {ShapeError("not_a_dictionary", 0, "")}
          ELSE {ShapeError("missing_key", 0, k) : k \in TopKeys \ doc.keys}
               \cup (IF "user_summary" \in doc.keys
                        /\ (~doc.has_name \/ doc.name = <<>>)
                     THEN {ShapeError("name", 0, "name")} ELSE {})
               \cup (IF "career_recommendations" \notin doc.keys THEN {}
                     ELSE IF Len(doc.recs) # NumCareerPaths
                     THEN {ShapeError("count", 0, "career_recommendations")}
                     ELSE UNION {RecommendationErrors(doc.recs[i], i) :
                                    i \in 1..Len(doc.recs)})
    IN [ok |-> errors = {}, errors |-> errors]

\* ------------------------------------------------------------ AI gateway
AckText == Prose(<<"Here is your personalized career assessment:">>)
UnavailableText ==
    Prose(<<"I'm having trouble connecting to my AI brain right now. Please try again in a moment.">>)
StatusErrorText == Prose(<<"AI Service Error (status): message">>)
ApiErrorText == Prose(<<"AI Service Error: message">>)
TroubleText ==
    Prose(<<"I'm having trouble processing your request. Please try again in a moment.">>)
NotAvailableText == Prose(<<"AI service is not available">>)

\* what self.client.chat.completions.create does
LLMKinds ==
    {"ok", "null_content", "empty_choices", "status_error", "api_error",
     "transport_error"}
LLMOutcome(kind, text) == [kind |-> kind, text |-> text]

\* the current message is replayed too
RECURSIVE FormatHistoryKeepsCurrent(_, _)
FormatHistoryKeepsCurrent(chat_history, current_message_id) ==
    IF chat_history = <<>> THEN <<>>
    ELSE LET msg == Head(chat_history)
             rest == FormatHistoryKeepsCurrent(Tail(chat_history),
                                               current_message_id)
         IN IF msg.sender = "user"
            THEN <<[role |-> "user", content |-> msg.content]>> \o rest
            ELSE IF msg.sender = "devy" /\ ~json_loads(msg.content).ok
                 THEN <<[role |-> "assistant", content |-> msg.content]>> \o rest
            ELSE rest

\* AIService._format_conversation_history
RECURSIVE _format_conversation_history(_, _)
_format_conversation_history(chat_history, current_message_id) ==
    IF chat_history = <<>> THEN <<>>
    ELSE LET msg == Head(chat_history)
             rest == _format_conversation_history(Tail(chat_history),
                                                  current_message_id)
         IN IF msg.id = current_message_id THEN rest
            ELSE IF msg.sender = "user"
                 THEN <<[role |-> "user", content |-> msg.content]>> \o rest
            ELSE IF msg.sender = "devy" /\ ~json_loads(msg.content).ok
                 THEN <<[role |-> "assistant", content |-> msg.content]>> \o rest
            ELSE rest

\* a user_profile value: a mapping (is_map) that may hold a name, or some
\* other JSON value
EmptyProfile == [is_map |-> TRUE, has_name |-> FALSE, name |-> <<>>]
MalformedProfile == [is_map |-> FALSE, has_name |-> FALSE, name |-> <<>>]
NamedProfile(n) == [is_map |-> TRUE, has_name |-> TRUE, name |-> n]

NoRequest == [sent |-> FALSE, profile |-> EmptyProfile, messages |-> <<>>]

\* the tuple AIService.process_conversation returns (raised: it raised
\* AIServiceError instead), with the request it sent to the model
GatewayResult(content, is_assessment, has_payload, payload, request) ==
    [raised |-> FALSE, response_content |-> content,
     is_assessment |-> is_assessment,
     has_payload |-> has_payload, payload |-> payload, request |-> request]

\* an assessment handed back with the raw JSON text as the reply
ClassifyResponseRawReply(response_content, request) ==
    LET parsed == json_loads(response_content)
    IN IF parsed.ok /\ model_validate_ok(parsed.doc)
       THEN GatewayResult(response_content, TRUE, TRUE,
                          model_validate(parsed.doc), request)
       ELSE GatewayResult(response_content, FALSE, FALSE, NoPayload, request)

\* process_conversation, lines 376-394: the answer is an assessment when it
\* parses as JSON and validates against RecommendationResponse
ClassifyResponse(response_content, request) ==
    LET parsed == json_loads(response_content)
    IN IF parsed.ok /\ model_validate_ok(parsed.doc)
       THEN GatewayResult(AckText, TRUE, TRUE, model_validate(parsed.doc), request)
       ELSE GatewayResult(response_content, FALSE, FALSE, NoPayload, request)

\* a failed call of the model is raised to the caller as AIServiceError
process_conversation_reraises(available, llm, user_message, user_profile, chat_history, current_message_id) ==
    IF ~available \/ llm.kind # "ok"
    THEN [raised |-> TRUE, response_content |-> NotAvailableText,
          is_assessment |-> FALSE, has_payload |-> FALSE,
          payload |-> NoPayload, request |-> NoRequest]
    ELSE ClassifyResponse(llm.text,
            [sent |-> TRUE, profile |-> user_profile,
             messages |->
                 _format_conversation_history(chat_history, current_message_id)
                 \o <<[role |-> "user", content |-> Prose(user_message)]>>])

\* AIService.process_conversation
process_conversation(available, llm, user_message, user_profile, chat_history, current_message_id) ==
    IF ~available
    THEN [raised |-> TRUE, response_content |-> NotAvailableText,
          is_assessment |-> FALSE, has_payload |-> FALSE,
          payload |-> NoPayload, request |-> NoRequest]
    ELSE
    LET request ==
            [sent |-> TRUE, profile |-> user_profile,
             messages |->
                 _format_conversation_history(chat_history, current_message_id)
                 \o <<[role |-> "user", content |-> Prose(user_message)]>>]
    IN CASE llm.kind = "status_error" ->
                GatewayResult(StatusErrorText, FALSE, FALSE, NoPayload, request)
         [] llm.kind = "api_error" ->
                GatewayResult(ApiErrorText, FALSE, FALSE, NoPayload, request)
         [] llm.kind \in {"transport_error", "empty_choices", "null_content"} ->
                GatewayResult(TroubleText, FALSE, FALSE, NoPayload, request)
         [] OTHER -> ClassifyResponse(llm.text, request)

\* ----------------------------------------------------------------- store
VARIABLES
    db,            \* the committed tables
    tx,            \* per request: its transaction and the locals of its turn
    turns,         \* chat turns started so far
    ai_available,  \* AIService.is_available()
    gw,            \* gateway harness: inputs and result of process_conversation
    hq,            \* history harness: the last get_chat_history query
    pf             \* validation harness: one call of a validation function

vars == <<db, tx, turns, ai_available, gw, hq, pf>>

\* Session.context_data: NULL, or a mapping that may hold user_profile
NullCtx == [is_null |-> TRUE, has_profile |-> FALSE, profile |-> EmptyProfile]
NoProfileCtx == [is_null |-> FALSE, has_profile |-> FALSE, profile |-> EmptyProfile]
ProfileCtx(pr) == [is_null |-> FALSE, has_profile |-> TRUE, profile |-> pr]
EmptyCtx == ProfileCtx(EmptyProfile)      \* {"user_profile": {}}

\* rows: sessions are keyed by token, the other tables by their integer id;
\* user_id 0 is NULL
SessionRow(user_id, ctx) == [user_id |-> user_id, context_data |-> ctx]
MessageRow(sid, sender, content, ts) ==
    [session_id |-> sid, sender |-> sender, content |-> content, timestamp |-> ts]
\* the Assessment is saved without the user it belongs to
AssessmentRowWithoutUser(sid, uid, data) ==
    [session_id |-> sid, user_id |-> 0, assessment_data |-> data]
AssessmentRow(sid, uid, data) ==
    [session_id |-> sid, user_id |-> uid, assessment_data |-> data]

NoRows == [k \in {} |-> 0]
EmptyStore ==
    [sessions |-> NoRows, messages |-> NoRows, users |-> NoRows,
     assessments |-> NoRows]

\* rows of b added to, or replacing, those of a
Overlay(a, b) ==
    [k \in DOMAIN a \cup DOMAIN b |-> IF k \in DOMAIN b THEN b[k] ELSE a[k]]

OverlayStore(a, b) ==
    [sessions |-> Overlay(a.sessions, b.sessions),
     messages |-> Overlay(a.messages, b.messages),
     users |-> Overlay(a.users, b.users),
     assessments |-> Overlay(a.assessments, b.assessments)]

\* the unit of work of the ORM session: objects added and not yet flushed,
\* and the attribute state of new or modified Session and User objects
EmptyOrm ==
    [new_sessions |-> <<>>, sessions |-> NoRows, new_users |-> <<>>,
     users |-> NoRows, new_messages |-> <<>>, new_assessments |-> <<>>]

\* what a query of request p sees: the committed rows and the rows p has
\* flushed itself (autoflush is off, so nothing that is only pending)
View(p) == OverlayStore(db, tx[p].fl)

AllKeys(table) ==
    DOMAIN db[table] \cup UNION {DOMAIN tx[q].fl[table] : q \in Procs}
NextId(table) == IF AllKeys(table) = {} THEN 1 ELSE Max(AllKeys(table)) + 1

AllTimestamps ==
    {db.messages[k].timestamp : k \in DOMAIN db.messages}
    \cup UNION {{tx[q].fl.messages[k].timestamp : k \in DOMAIN tx[q].fl.messages}
                : q \in Procs}
NextTimestamp == IF AllTimestamps = {} THEN 1 ELSE Max(AllTimestamps) + 1

HasDuplicates(seq) == \E i, j \in 1..Len(seq) : i # j /\ seq[i] = seq[j]

\* the unique constraint on assessments.session_id left out
AssessmentConflictUnchecked(assessments, new_assessments) == FALSE

\* Assessment.session_id, unique=True: an INSERT of new_assessments is
\* refused when a session would get a second row
AssessmentConflict(assessments, new_assessments) ==
    \/ HasDuplicates([i \in 1..Len(new_assessments)
                         |-> new_assessments[i].session_id])
    \/ \E i \in 1..Len(new_assessments) :
           new_assessments[i].session_id
               \in {assessments[k].session_id : k \in DOMAIN assessments}

\* Session.flush() of request p on unit of work orm: users and sessions
\* first, then messages (each stamped with utcnow) and assessments.
\* ok is FALSE when an INSERT violates the primary key of sessions or the
\* unique constraint on assessments.session_id (IntegrityError).
Flush(p, orm) ==
    LET view == View(p)
        uid0 == NextId("users")
        mid0 == NextId("messages")
        aid0 == NextId("assessments")
        ts0 == NextTimestamp
        new_users == [k \in uid0..(uid0 + Len(orm.new_users) - 1)
                         |-> orm.new_users[k - uid0 + 1]]
        new_messages ==
            [k \in mid0..(mid0 + Len(orm.new_messages) - 1) |->
                 LET m == orm.new_messages[k - mid0 + 1]
                 IN MessageRow(m.session_id, m.sender, m.content,
                               ts0 + (k - mid0))]
        new_assessments ==
            [k \in aid0..(aid0 + Len(orm.new_assessments) - 1)
                 |-> orm.new_assessments[k - aid0 + 1]]
        session_conflict ==
            \/ HasDuplicates(orm.new_sessions)
            \/ \E i \in 1..Len(orm.new_sessions) :
                   orm.new_sessions[i] \in DOMAIN view.sessions
        assessment_conflict ==
            AssessmentConflict(view.assessments, orm.new_assessments)
    IN [ok |-> ~session_conflict /\ ~assessment_conflict,
        user_id |-> uid0,
        message_id |-> mid0,
        fl |-> [sessions |-> Overlay(tx[p].fl.sessions, orm.sessions),
                messages |-> Overlay(tx[p].fl.messages, new_messages),
                users |-> Overlay(Overlay(tx[p].fl.users, orm.users), new_users),
                assessments |-> Overlay(tx[p].fl.assessments, new_assessments)]]

\* the context is reset on every call
ensure_session_exists_resets(p, orm, session_id) ==
    LET found == session_id \in DOMAIN View(p).sessions
        row == IF ~found THEN SessionRow(0, EmptyCtx)
               ELSE IF session_id \in DOMAIN orm.sessions
                    THEN orm.sessions[session_id]
                    ELSE View(p).sessions[session_id]
        row2 == [row EXCEPT !.context_data = EmptyCtx]
    IN [orm |->
            [orm EXCEPT
               !.new_sessions = IF found THEN @ ELSE Append(@, session_id),
               !.sessions = Overlay(@, [k \in {session_id} |-> row2])],
        db_session |-> row2]

\* ChatService.ensure_session_exists on unit of work orm: the unit of work
\* afterwards and the context_data of the Session object it returns
ensure_session_exists(p, orm, session_id) ==
    LET found == session_id \in DOMAIN View(p).sessions
        row == IF ~found THEN SessionRow(0, EmptyCtx)
               ELSE IF session_id \in DOMAIN orm.sessions
                    THEN orm.sessions[session_id]
                    ELSE View(p).sessions[session_id]
        repair == row.context_data.is_null \/ ~row.context_data.has_profile
        row2 == IF repair THEN [row EXCEPT !.context_data = EmptyCtx] ELSE row
        touched == ~found \/ repair
    IN [orm |->
            [orm EXCEPT
               !.new_sessions = IF found THEN @ ELSE Append(@, session_id),
               !.sessions = IF touched
                            THEN Overlay(@, [k \in {session_id} |-> row2])
                            ELSE @],
        db_session |-> row2]

\* ------------------------------------------------------------ chat turn
NoOutput ==
    [status |-> "none", devy_response |-> EmptyText, session_id |-> "",
     is_assessment_complete |-> FALSE, has_payload |-> FALSE,
     recommendation_payload |-> NoPayload]

\* a request that is not inside process_message
IdleTx ==
    [pc |-> "Idle", session_id |-> "", user_message |-> <<>>,
     fl |-> EmptyStore, orm |-> EmptyOrm, before |-> EmptyStore,
     user_profile |-> EmptyProfile, user_msg_id |-> 0, chat_history |-> <<>>,
     llm |-> LLMOutcome("ok", EmptyText), llm_calls |-> 0, request |-> NoRequest,
     response_content |-> EmptyText, is_assessment_complete |-> FALSE,
     has_payload |-> FALSE, recommendation_payload |-> NoPayload,
     db_user_id |-> 0, failed_at |-> "", out |-> NoOutput,
     db_session |-> SessionRow(0, EmptyCtx), resolve_calls |-> 0,
     prev_session_id |-> "", error |-> "", assessment_errors |-> {}]

Active ==
    {"SessionResolved", "UserMessageStored", "HistoryLoaded", "AIResponded",
     "AssessmentHandled", "AssistantMessageStored", "Committed"}

\* except Exception: self.db.rollback(); raise ChatServiceError
Rollback(p, step, error) ==
    [IdleTx EXCEPT !.pc = "Error", !.session_id = tx[p].session_id,
                   !.user_message = tx[p].user_message,
                   !.before = tx[p].before,
                   !.failed_at = step, !.error = error,
                   !.out = [NoOutput EXCEPT !.status = "ChatServiceError",
                                            !.session_id = tx[p].session_id]]

\* process_message, lines 276-277: resolve the session, read its profile
ResolveSession(p, session_id, user_message) ==
    /\ tx[p].pc \in {"Idle", "Done", "Error"}
    /\ turns < MaxTurns
    /\ turns' = turns + 1
    /\ LET r == ensure_session_exists(p, EmptyOrm, session_id)
       IN tx' = [tx EXCEPT ![p] =
                    [IdleTx EXCEPT
                       !.pc = "SessionResolved",
                       !.session_id = session_id,
                       !.user_message = user_message,
                       !.before = db,
                       !.orm = r.orm,
                       !.db_session = r.db_session,
                       !.resolve_calls = 1,
                       !.user_profile = r.db_session.context_data.profile]]
    /\ UNCHANGED <<db, ai_available, gw, hq, pf>>

\* the user message is committed as soon as it is stored
SaveUserMessageCommits(p) ==
    /\ tx[p].pc = "SessionResolved"
    /\ LET content == Prose(sanitize_string(tx[p].user_message, SanitizeMaxLength))
           orm == [tx[p].orm EXCEPT
                     !.new_messages =
                         Append(@, [session_id |-> tx[p].session_id,
                                    sender |-> "user", content |-> content])]
           f == Flush(p, orm)
       IN /\ tx' = [tx EXCEPT ![p] =
                       IF f.ok
                       THEN [tx[p] EXCEPT !.pc = "UserMessageStored",
                                          !.fl = EmptyStore, !.orm = EmptyOrm,
                                          !.user_msg_id = f.message_id]
                       ELSE Rollback(p, "SessionResolved", "IntegrityError")]
          /\ db' = IF f.ok THEN OverlayStore(db, f.fl) ELSE db
    /\ UNCHANGED <<turns, ai_available, gw, hq, pf>>

\* ChatService.save_user_message: sanitize, add, flush to get the id
SaveUserMessage(p) ==
    /\ tx[p].pc = "SessionResolved"
    /\ LET content == Prose(sanitize_string(tx[p].user_message, SanitizeMaxLength))
           orm == [tx[p].orm EXCEPT
                     !.new_messages =
                         Append(@, [session_id |-> tx[p].session_id,
                                    sender |-> "user", content |-> content])]
           f == Flush(p, orm)
       IN tx' = [tx EXCEPT ![p] =
                    IF f.ok
                    THEN [tx[p] EXCEPT !.pc = "UserMessageStored",
                                       !.fl = f.fl, !.orm = EmptyOrm,
                                       !.user_msg_id = f.message_id]
                    ELSE Rollback(p, "SessionResolved", "IntegrityError")]
    /\ UNCHANGED <<db, turns, ai_available, gw, hq, pf>>

\* the rows of table messages as a sequence of records carrying their id,
\* in the order of ids
RECURSIVE RowsById(_, _)
RowsById(messages, ids) ==
    IF ids = {} THEN <<>>
    ELSE LET k == CHOOSE x \in ids : \A y \in ids : x <= y
         IN <<[id |-> k, session_id |-> messages[k].session_id,
               sender |-> messages[k].sender, content |-> messages[k].content,
               timestamp |-> messages[k].timestamp]>>
            \o RowsById(messages, ids \ {k})

\* ORDER BY timestamp DESC: the rows of the set, latest first
RECURSIVE OrderByTimestampDesc(_)
OrderByTimestampDesc(rows) ==
    IF rows = {} THEN <<>>
    ELSE LET m == CHOOSE x \in rows : \A y \in rows : y.timestamp <= x.timestamp
         IN <<m>> \o OrderByTimestampDesc(rows \ {m})

Reverse(seq) == [i \in 1..Len(seq) |-> seq[Len(seq) + 1 - i]]

\* the limit applied to the oldest rows instead of the latest
get_chat_history_oldest(messages, session_id, limit) ==
    LET all == RowsById(messages, DOMAIN messages)
        mine == {all[i] : i \in {j \in 1..Len(all) : all[j].session_id = session_id}}
        sorted == Reverse(OrderByTimestampDesc(mine))
    IN SubSeq(sorted, 1, MinOf(limit, Len(sorted)))

\* ChatService.get_chat_history: filter on the session, ORDER BY timestamp
\* DESC, LIMIT limit, then reversed
get_chat_history(messages, session_id, limit) ==
    LET all == RowsById(messages, DOMAIN messages)
        mine == {all[i] : i \in {j \in 1..Len(all) : all[j].session_id = session_id}}
        sorted == OrderByTimestampDesc(mine)
    IN Reverse(SubSeq(sorted, 1, MinOf(limit, Len(sorted))))

\* process_message, line 283
LoadHistory(p) ==
    /\ tx[p].pc = "UserMessageStored"
    /\ tx' = [tx EXCEPT ![p] =
                 [tx[p] EXCEPT
                    !.pc = "HistoryLoaded",
                    !.chat_history =
                        get_chat_history(View(p).messages, tx[p].session_id,
                                         HistoryLimit)]]
    /\ UNCHANGED <<db, turns, ai_available, gw, hq, pf>>

\* the model is called without asking is_available first
InvokeAIUnguarded(p, llm) ==
    /\ tx[p].pc = "HistoryLoaded"
    /\ LET r == process_conversation(TRUE, llm, tx[p].user_message,
                                     tx[p].user_profile, tx[p].chat_history,
                                     tx[p].user_msg_id)
       IN tx' = [tx EXCEPT ![p] =
                    [tx[p] EXCEPT !.pc = "AIResponded",
                                  !.llm = llm,
                                  !.llm_calls = @ + 1,
                                  !.request = r.request,
                                  !.response_content = r.response_content,
                                  !.is_assessment_complete = r.is_assessment,
                                  !.has_payload = r.has_payload,
                                  !.recommendation_payload = r.payload]]
    /\ UNCHANGED <<db, turns, ai_available, gw, hq, pf>>

\* process_message, lines 286-304: the fixed apology when the service is
\* not available, else one call of process_conversation
InvokeAI(p, llm) ==
    /\ tx[p].pc = "HistoryLoaded"
    /\ LET r == process_conversation(TRUE, llm, tx[p].user_message,
                                     tx[p].user_profile, tx[p].chat_history,
                                     tx[p].user_msg_id)
       IN tx' = [tx EXCEPT ![p] =
                    IF ~ai_available
                    THEN [tx[p] EXCEPT !.pc = "AIResponded",
                                       !.response_content = UnavailableText,
                                       !.is_assessment_complete = FALSE,
                                       !.has_payload = FALSE,
                                       !.recommendation_payload = NoPayload]
                    ELSE [tx[p] EXCEPT !.pc = "AIResponded",
                                       !.llm = llm,
                                       !.llm_calls = @ + 1,
                                       !.request = r.request,
                                       !.response_content = r.response_content,
                                       !.is_assessment_complete = r.is_assessment,
                                       !.has_payload = r.has_payload,
                                       !.recommendation_payload = r.payload]]
    /\ UNCHANGED <<db, turns, ai_available, gw, hq, pf>>

DigitValue(c) ==
    CASE c = "0" -> 0 [] c = "1" -> 1 [] c = "2" -> 2 [] c = "3" -> 3
      [] c = "4" -> 4 [] c = "5" -> 5 [] c = "6" -> 6 [] c = "7" -> 7
      [] c = "8" -> 8 [] OTHER -> 9

\* int(s) of a string of digits
RECURSIVE StrToInt(_)
StrToInt(s) ==
    IF s = <<>> THEN 0
    ELSE 10 * StrToInt(SubSeq(s, 1, Len(s) - 1)) + DigitValue(s[Len(s)])

NoAge == [some |-> FALSE, v |-> 0]

\* int(age) if age and age.isdigit() else None
ParseAge(age) ==
    IF age.some /\ age.v # <<>> /\ \A i \in 1..Len(age.v) : IsDigit(age.v[i])
    THEN [some |-> TRUE, v |-> StrToInt(age.v)]
    ELSE NoAge

\* _update_user_from_assessment, lines 171-186: the User row named as the
\* summary says, every profile field overwritten from the summary
UserFromSummary(user_summary) ==
    [name |-> user_summary.name,
     age |-> ParseAge(user_summary.age),
     education_level |-> user_summary.education_level,
     technical_knowledge |-> user_summary.technical_knowledge,
     top_subjects |-> user_summary.top_subjects,
     subject_aspects |-> user_summary.subject_aspects,
     interests_dreams |-> user_summary.interests_dreams]

\* ChatService._update_session_profile: raises AttributeError when the
\* user_profile it reads has no get; else backfills a missing name
_update_session_profile(row, user_name) ==
    LET ctx == row.context_data
        user_profile == IF ctx.has_profile THEN ctx.profile ELSE EmptyProfile
    IN IF user_name = <<>> THEN [raised |-> FALSE, row |-> row]
       ELSE IF ctx.is_null \/ ~user_profile.is_map
            THEN [raised |-> TRUE, row |-> row]
       ELSE IF ~user_profile.has_name \/ user_profile.name = <<>>
            THEN [raised |-> FALSE,
                  row |-> [row EXCEPT !.context_data =
                                          ProfileCtx(NamedProfile(user_name))]]
       ELSE [raised |-> FALSE, row |-> row]

\* the session is never linked to the user
LinkSessionSkipped(row, user_id) == row

\* _update_user_from_assessment, lines 193-195: session.user_id = db_user.id
LinkSession(row, user_id) ==
    IF user_id # 0 THEN [row EXCEPT !.user_id = user_id] ELSE row

\* recommendation.model_dump(): the dictionary of a validated response,
\* with every field of the schema as a key and the scores as integers
model_dump(recommendation) ==
    [object |-> TRUE, keys |-> TopKeys, has_name |-> TRUE,
     name |-> recommendation.name, age |-> recommendation.age,
     education_level |-> recommendation.education_level,
     technical_knowledge |-> recommendation.technical_knowledge,
     top_subjects |-> recommendation.top_subjects,
     subject_aspects |-> recommendation.subject_aspects,
     interests_dreams |-> recommendation.interests_dreams,
     recs |-> [i \in 1..Len(recommendation.scores) |->
                  RecDoc(RecKeys, "int", recommendation.scores[i])]]

\* an assessment that fails the validation is not saved
RecordAssessmentValidOnly(p, orm, fl, user_id) ==
    LET sid == tx[p].session_id
        row == IF sid \in DOMAIN orm.sessions THEN orm.sessions[sid]
               ELSE OverlayStore(db, fl).sessions[sid]
        linked == LinkSession(row, user_id)
        checked == validate_assessment_data(model_dump(tx[p].recommendation_payload))
        u == _update_session_profile(linked, tx[p].recommendation_payload.name)
        orm2 == [orm EXCEPT
                   !.sessions = Overlay(@, [k \in {sid} |-> u.row]),
                   !.new_assessments =
                       IF checked.ok
                       THEN Append(@, AssessmentRow(sid, user_id,
                                                    tx[p].recommendation_payload))
                       ELSE @]
    IN IF u.raised THEN Rollback(p, "AIResponded", "AttributeError")
       ELSE [tx[p] EXCEPT !.pc = "AssessmentHandled", !.fl = fl, !.orm = orm2,
                          !.db_user_id = user_id,
                          !.assessment_errors = checked.errors]

\* process_message, lines 309-320, once the User object db_user is known:
\* link the session, validate the dictionary of the assessment and add the
\* Assessment whatever the validation says, backfill the profile name
RecordAssessment(p, orm, fl, user_id) ==
    LET sid == tx[p].session_id
        row == IF sid \in DOMAIN orm.sessions THEN orm.sessions[sid]
               ELSE OverlayStore(db, fl).sessions[sid]
        linked == LinkSession(row, user_id)
        checked == validate_assessment_data(model_dump(tx[p].recommendation_payload))
        u == _update_session_profile(linked, tx[p].recommendation_payload.name)
        orm2 == [orm EXCEPT
                   !.sessions = Overlay(@, [k \in {sid} |-> u.row]),
                   !.new_assessments =
                       Append(@, AssessmentRow(sid, user_id,
                                               tx[p].recommendation_payload))]
    IN IF u.raised THEN Rollback(p, "AIResponded", "AttributeError")
       ELSE [tx[p] EXCEPT !.pc = "AssessmentHandled", !.fl = fl, !.orm = orm2,
                          !.db_user_id = user_id,
                          !.assessment_errors = checked.errors]

\* an assessment that names nobody is recorded for a User without a name
SkipAssessmentRecordsNameless(p) ==
    /\ tx[p].pc = "AIResponded"
    /\ \/ ~(tx[p].is_assessment_complete /\ tx[p].has_payload)
       \/ tx[p].recommendation_payload.name = <<>>
    /\ LET orm == [tx[p].orm EXCEPT
                     !.new_users =
                         Append(@, UserFromSummary(tx[p].recommendation_payload))]
           f == Flush(p, orm)
       IN tx' = [tx EXCEPT ![p] =
                    IF ~(tx[p].is_assessment_complete /\ tx[p].has_payload)
                    THEN [tx[p] EXCEPT !.pc = "AssessmentHandled"]
                    ELSE IF f.ok THEN RecordAssessment(p, EmptyOrm, f.fl, f.user_id)
                    ELSE Rollback(p, "AIResponded", "IntegrityError")]
    /\ UNCHANGED <<db, turns, ai_available, gw, hq, pf>>

\* process_message, lines 307-320, no assessment to record: the reply is
\* conversation, or the assessment names nobody
SkipAssessment(p) ==
    /\ tx[p].pc = "AIResponded"
    /\ \/ ~(tx[p].is_assessment_complete /\ tx[p].has_payload)
       \/ tx[p].recommendation_payload.name = <<>>
    /\ tx' = [tx EXCEPT ![p] = [tx[p] EXCEPT !.pc = "AssessmentHandled"]]
    /\ UNCHANGED <<db, turns, ai_available, gw, hq, pf>>

\* a User row is added without looking for one of that name
CreateUserWithoutLookup(p) ==
    /\ tx[p].pc = "AIResponded"
    /\ tx[p].is_assessment_complete /\ tx[p].has_payload
    /\ tx[p].recommendation_payload.name # <<>>
    /\ LET orm == [tx[p].orm EXCEPT
                     !.new_users =
                         Append(@, UserFromSummary(tx[p].recommendation_payload))]
           f == Flush(p, orm)
       IN tx' = [tx EXCEPT ![p] =
                    IF f.ok THEN RecordAssessment(p, EmptyOrm, f.fl, f.user_id)
                    ELSE Rollback(p, "AIResponded", "IntegrityError")]
    /\ UNCHANGED <<db, turns, ai_available, gw, hq, pf>>

\* _update_user_from_assessment, no User of that name yet: add one, flush
\* to get its id
CreateUserFromAssessment(p) ==
    /\ tx[p].pc = "AIResponded"
    /\ tx[p].is_assessment_complete /\ tx[p].has_payload
    /\ tx[p].recommendation_payload.name # <<>>
    /\ \A k \in DOMAIN View(p).users :
           View(p).users[k].name # tx[p].recommendation_payload.name
    /\ LET orm == [tx[p].orm EXCEPT
                     !.new_users =
                         Append(@, UserFromSummary(tx[p].recommendation_payload))]
           f == Flush(p, orm)
       IN tx' = [tx EXCEPT ![p] =
                    IF f.ok THEN RecordAssessment(p, EmptyOrm, f.fl, f.user_id)
                    ELSE Rollback(p, "AIResponded", "IntegrityError")]
    /\ UNCHANGED <<db, turns, ai_available, gw, hq, pf>>

\* a field the summary leaves out keeps the value the User row had
UpdateUserMerges(p) ==
    /\ tx[p].pc = "AIResponded"
    /\ tx[p].is_assessment_complete /\ tx[p].has_payload
    /\ tx[p].recommendation_payload.name # <<>>
    /\ \E k \in DOMAIN View(p).users :
          /\ View(p).users[k].name = tx[p].recommendation_payload.name
          /\ LET old == View(p).users[k]
                 new == UserFromSummary(tx[p].recommendation_payload)
                 merged ==
                     [new EXCEPT
                        !.age = IF new.age.some THEN @ ELSE old.age,
                        !.education_level = IF @.some THEN @
                                            ELSE old.education_level]
                 orm == [tx[p].orm EXCEPT
                            !.users = Overlay(@, [j \in {k} |-> merged])]
             IN tx' = [tx EXCEPT ![p] = RecordAssessment(p, orm, tx[p].fl, k)]
    /\ UNCHANGED <<db, turns, ai_available, gw, hq, pf>>

\* _update_user_from_assessment, a User of that name exists: the first row
\* the query returns is overwritten
UpdateUserFromAssessment(p) ==
    /\ tx[p].pc = "AIResponded"
    /\ tx[p].is_assessment_complete /\ tx[p].has_payload
    /\ tx[p].recommendation_payload.name # <<>>
    /\ \E k \in DOMAIN View(p).users :
          /\ View(p).users[k].name = tx[p].recommendation_payload.name
          /\ LET orm == [tx[p].orm EXCEPT
                            !.users =
                                Overlay(@, [j \in {k} |->
                                    UserFromSummary(tx[p].recommendation_payload)])]
             IN tx' = [tx EXCEPT ![p] = RecordAssessment(p, orm, tx[p].fl, k)]
    /\ UNCHANGED <<db, turns, ai_available, gw, hq, pf>>

\* the reply is never added to the session
SaveAIMessageDropped(p) ==
    /\ tx[p].pc = "AssessmentHandled"
    /\ tx' = [tx EXCEPT ![p] = [tx[p] EXCEPT !.pc = "AssistantMessageStored"]]
    /\ UNCHANGED <<db, turns, ai_available, gw, hq, pf>>

\* ChatService.save_ai_message: add, no flush
SaveAIMessage(p) ==
    /\ tx[p].pc = "AssessmentHandled"
    /\ tx' = [tx EXCEPT ![p] =
                 [tx[p] EXCEPT
                    !.pc = "AssistantMessageStored",
                    !.orm = [@ EXCEPT
                               !.new_messages =
                                   Append(@, [session_id |-> tx[p].session_id,
                                              sender |-> "devy",
                                              content |-> tx[p].response_content])]]]
    /\ UNCHANGED <<db, turns, ai_available, gw, hq, pf>>

\* a new Assessment takes the place of the one the session had
CommitReplacesAssessment(p) ==
    /\ tx[p].pc = "AssistantMessageStored"
    /\ LET f == Flush(p, tx[p].orm)
           kept == {k \in DOMAIN db.assessments :
                      \/ tx[p].orm.new_assessments = <<>>
                      \/ db.assessments[k].session_id # tx[p].session_id}
       IN /\ db' = OverlayStore(
                      [db EXCEPT !.assessments = [k \in kept |-> @[k]]], f.fl)
          /\ tx' = [tx EXCEPT ![p] =
                       [tx[p] EXCEPT !.pc = "Committed", !.fl = EmptyStore,
                                     !.orm = EmptyOrm]]
    /\ UNCHANGED <<turns, ai_available, gw, hq, pf>>

\* self.db.commit(): flush what is pending, then make the rows durable
Commit(p) ==
    /\ tx[p].pc = "AssistantMessageStored"
    /\ LET f == Flush(p, tx[p].orm)
       IN IF f.ok
          THEN /\ db' = OverlayStore(db, f.fl)
               /\ tx' = [tx EXCEPT ![p] =
                            [tx[p] EXCEPT !.pc = "Committed", !.fl = EmptyStore,
                                          !.orm = EmptyOrm]]
          ELSE /\ db' = db
               /\ tx' = [tx EXCEPT ![p] =
                            Rollback(p, "AssistantMessageStored", "IntegrityError")]
    /\ UNCHANGED <<turns, ai_available, gw, hq, pf>>

\* process_message, lines 329-340: refresh and return the ChatOutput
ReturnOutput(p) ==
    /\ tx[p].pc = "Committed"
    /\ tx' = [tx EXCEPT ![p] =
                 [tx[p] EXCEPT
                    !.pc = "Done",
                    !.out = [status |-> "ok",
                             devy_response |-> tx[p].response_content,
                             session_id |-> tx[p].session_id,
                             is_assessment_complete |-> tx[p].is_assessment_complete,
                             has_payload |-> tx[p].has_payload,
                             recommendation_payload |->
                                 tx[p].recommendation_payload]]]
    /\ UNCHANGED <<db, turns, ai_available, gw, hq, pf>>

\* the handler leaves what the turn had flushed in the database
StepRaisesKeepsFlushed(p) ==
    /\ tx[p].pc \in Active
    /\ db' = OverlayStore(db, tx[p].fl)
    /\ tx' = [tx EXCEPT ![p] = Rollback(p, tx[p].pc, "Exception")]
    /\ UNCHANGED <<turns, ai_available, gw, hq, pf>>

\* a step of the turn raises (a database error, or any other exception):
\* process_message, lines 342-345
StepRaises(p) ==
    /\ tx[p].pc \in Active
    /\ tx' = [tx EXCEPT ![p] = Rollback(p, tx[p].pc, "Exception")]
    /\ UNCHANGED <<db, turns, ai_available, gw, hq, pf>>

\* the first query of the turn raises
ResolveRaises(p, session_id, user_message) ==
    /\ tx[p].pc \in {"Idle", "Done", "Error"}
    /\ turns < MaxTurns
    /\ turns' = turns + 1
    /\ tx' = [tx EXCEPT ![p] =
                 [IdleTx EXCEPT
                    !.pc = "Error", !.session_id = session_id,
                    !.user_message = user_message, !.before = db,
                    !.failed_at = "Idle", !.error = "Exception",
                    !.out = [NoOutput EXCEPT !.status = "ChatServiceError",
                                             !.session_id = session_id]]]
    /\ UNCHANGED <<db, ai_available, gw, hq, pf>>

\* the row of the token is written whether or not the token is taken
create_new_session_overwrites(p, token) ==
    /\ tx[p].pc \in {"Idle", "Done", "Error"}
    /\ db' = [db EXCEPT !.sessions =
                            Overlay(@, [k \in {token} |-> SessionRow(0, EmptyCtx)])]
    /\ tx' = [tx EXCEPT ![p] =
                 [IdleTx EXCEPT !.out = [NoOutput EXCEPT !.status = "created",
                                                         !.session_id = token]]]
    /\ UNCHANGED <<turns, ai_available, gw, hq, pf>>

\* ChatService.create_new_session: the token uuid4 draws, an empty-profile
\* Session row, committed at once; a token that is taken breaks the
\* primary key, the INSERT raises and lines 370-373 roll back
create_new_session(p, token) ==
    /\ tx[p].pc \in {"Idle", "Done", "Error"}
    /\ IF token \in DOMAIN db.sessions
       THEN /\ db' = db
            /\ tx' = [tx EXCEPT ![p] =
                         [IdleTx EXCEPT !.error = "IntegrityError",
                                        !.out = [NoOutput EXCEPT
                                                   !.status = "ChatServiceError"]]]
       ELSE /\ db' = [db EXCEPT !.sessions =
                            Overlay(@, [k \in {token} |-> SessionRow(0, EmptyCtx)])]
            /\ tx' = [tx EXCEPT ![p] =
                         [IdleTx EXCEPT !.out = [NoOutput EXCEPT
                                                   !.status = "created",
                                                   !.session_id = token]]]
    /\ UNCHANGED <<turns, ai_available, gw, hq, pf>>

\* create_new_session, lines 370-373: the commit raises
create_new_session_raises(p) ==
    /\ tx[p].pc \in {"Idle", "Done", "Error"}
    /\ tx' = [tx EXCEPT ![p] =
                 [IdleTx EXCEPT !.out = [NoOutput EXCEPT
                                            !.status = "ChatServiceError"]]]
    /\ UNCHANGED <<db, turns, ai_available, gw, hq, pf>>

\* ------------------------------------------------------------ the inputs
NameA == <<"A">>
NameB == <<"B">>

\* a JSON object with the three top-level keys and n recommendations, each
\* with every key and the given match_score
AssessmentDoc(name, age, education_level, n, score_kind, score) ==
    [NoDoc EXCEPT
       !.object = TRUE, !.keys = TopKeys, !.has_name = TRUE, !.name = name,
       !.age = age, !.education_level = education_level,
       !.recs = [i \in 1..n |-> RecDoc(RecKeys, score_kind, score)]]

ValidA == AssessmentDoc(NameA, OptSome(<<"1", "7">>), OptSome(<<"H", "S">>),
                        NumCareerPaths, "int", 90)
ValidA2 == AssessmentDoc(NameA, OptSome(<<"x">>), OptNone,
                         NumCareerPaths, "int", 40)
ValidB == AssessmentDoc(NameB, OptNone, OptSome(<<"B", "S", "c">>),
                        NumCareerPaths, "int", 75)
Nameless == AssessmentDoc(<<>>, OptNone, OptNone, NumCareerPaths, "int", 60)
FiveRecs == AssessmentDoc(NameB, OptNone, OptNone, NumCareerPaths - 1, "int", 60)
NoNotes == [ValidA EXCEPT !.keys = {"user_summary", "career_recommendations"}]

\* what the user types in a turn
UserMessages == {<<"h", "i">>, <<" ", "<", "b", ">", "4", "2">>}

\* what the model answers in a turn
TurnOutcomes ==
    {LLMOutcome("ok", Prose(<<"Tell me your name!">>)),
     LLMOutcome("ok", Prose(<<"7">>)),
     LLMOutcome("ok", JsonText(ValidA)),
     LLMOutcome("ok", JsonText(ValidA2)),
     LLMOutcome("ok", JsonText(ValidB)),
     LLMOutcome("ok", JsonText(Nameless)),
     LLMOutcome("ok", JsonText(FiveRecs)),
     LLMOutcome("ok", JsonText(NoNotes)),
     LLMOutcome("status_error", EmptyText),
     LLMOutcome("api_error", EmptyText),
     LLMOutcome("transport_error", EmptyText),
     LLMOutcome("empty_choices", EmptyText),
     LLMOutcome("null_content", EmptyText)}

GwIdle ==
    [phase |-> "idle", available |-> TRUE, llm |-> LLMOutcome("ok", EmptyText),
     user_message |-> <<>>, user_profile |-> EmptyProfile,
     chat_history |-> <<>>, current_message_id |-> 0,
     formatted |-> <<>>,
     result |-> GatewayResult(EmptyText, FALSE, FALSE, NoPayload, NoRequest)]

HqIdle == [phase |-> "idle", session_id |-> "", result |-> <<>>]

PfIdle ==
    [fn |-> "none", phase |-> "idle", text |-> <<>>, max_length |-> 0,
     doc |-> NoDoc, ok |-> FALSE, reason |-> "", out |-> <<>>, errors |-> {}]

\* ------------------------------------------------------- specification
\* an empty database, no request in flight
Init ==
    /\ db = EmptyStore
    /\ tx = [p \in Procs |-> IdleTx]
    /\ turns = 0
    /\ ai_available \in BOOLEAN
    /\ gw = GwIdle
    /\ hq = HqIdle
    /\ pf = PfIdle

\* requests are served one at a time
Next ==
    \/ \E sid \in Tokens, m \in UserMessages : ResolveSession(1, sid, m)
    \/ \E sid \in Tokens, m \in UserMessages : ResolveRaises(1, sid, m)
    \/ SaveUserMessage(1)
    \/ LoadHistory(1)
    \/ \E llm \in TurnOutcomes : InvokeAI(1, llm)
    \/ SkipAssessment(1)
    \/ CreateUserFromAssessment(1)
    \/ UpdateUserFromAssessment(1)
    \/ SaveAIMessage(1)
    \/ Commit(1)
    \/ ReturnOutput(1)
    \/ StepRaises(1)
    \/ \E t \in Tokens : create_new_session(1, t)
    \/ create_new_session_raises(1)

Spec == Init /\ [][Next]_vars

\* ------------------------------------------------- the gateway, alone
GoodRec == RecDoc(RecKeys, "int", 50)

\* n recommendations, the last one being rec
RecsEndingWith(n, rec) == [i \in 1..n |-> IF i = n THEN rec ELSE GoodRec]

GatewayRecs ==
    {RecDoc(keys, kind, score) :
        keys \in {RecKeys, RecKeys \ {"suggested_next_steps"},
                  RecKeys \ {"reasoning"}, RecKeys \ {"match_score"}},
        kind \in {"int", "numstr", "text"},
        score \in {MinScore - 1, MinScore, MaxScore, MaxScore + 1}}

\* the JSON documents the model may answer with
GatewayDocs ==
    {[NoDoc EXCEPT !.object = TRUE, !.keys = keys, !.has_name = name[1],
                   !.name = name[2], !.recs = RecsEndingWith(n, rec)] :
        keys \in {TopKeys} \cup {TopKeys \ {k} : k \in TopKeys},
        name \in {<<FALSE, <<>> >>, <<TRUE, <<>> >>, <<TRUE, NameA>>},
        n \in {NumCareerPaths - 1, NumCareerPaths, NumCareerPaths + 1},
        rec \in GatewayRecs}
    \cup {NoDoc}

GatewayOutcomes ==
    {LLMOutcome("ok", JsonText(d)) : d \in GatewayDocs}
    \cup {LLMOutcome("ok", Prose(<<"Tell me your name!">>)),
          LLMOutcome("ok", Prose(<<"4", "2">>)),
          LLMOutcome("ok", EmptyText)}
    \cup {LLMOutcome(k, EmptyText) : k \in LLMKinds \ {"ok"}}

\* a chat history row
HistoryRow(id, sender, content) ==
    [id |-> id, session_id |-> "s1", sender |-> sender, content |-> content,
     timestamp |-> id]

HistoryContents ==
    {Prose(<<"h", "i">>), Prose(<<"7">>), JsonText(ValidA)}

\* the chat histories of n messages, with ids 1..n
HistoriesOfLen(n) ==
    {[i \in 1..n |-> HistoryRow(i, f[i][1], f[i][2])] :
        f \in [1..n -> {"user", "devy"} \X HistoryContents]}

\* the gateway is handed one answer of the model and a short history
InitGateway ==
    /\ db = EmptyStore
    /\ tx = [p \in Procs |-> IdleTx]
    /\ turns = 0
    /\ ai_available \in BOOLEAN
    /\ hq = HqIdle
    /\ pf = PfIdle
    /\ \E llm \in GatewayOutcomes, h \in HistoriesOfLen(0) \cup HistoriesOfLen(1) :
          gw = [GwIdle EXCEPT !.phase = "input", !.available = ai_available,
                              !.llm = llm, !.user_message = <<"h", "i">>,
                              !.chat_history = h, !.current_message_id = 2]

\* one call of AIService.process_conversation
Converse ==
    /\ gw.phase = "input"
    /\ gw' = [gw EXCEPT
                 !.phase = "output",
                 !.result = process_conversation(gw.available, gw.llm,
                                gw.user_message, gw.user_profile,
                                gw.chat_history, gw.current_message_id)]
    /\ UNCHANGED <<db, tx, turns, ai_available, hq, pf>>

SpecGateway == InitGateway /\ [][Converse]_vars

\* a chat history of up to MaxHist messages and an id to leave out
InitFormat ==
    /\ db = EmptyStore
    /\ tx = [p \in Procs |-> IdleTx]
    /\ turns = 0
    /\ ai_available = TRUE
    /\ hq = HqIdle
    /\ pf = PfIdle
    /\ \E n \in 0..MaxHist :
          \E h \in HistoriesOfLen(n), x \in 0..(n + 1) :
             gw = [GwIdle EXCEPT !.phase = "input", !.chat_history = h,
                                 !.current_message_id = x]

\* one call of AIService._format_conversation_history
FormatHistory ==
    /\ gw.phase = "input"
    /\ gw' = [gw EXCEPT
                 !.phase = "formatted",
                 !.formatted = _format_conversation_history(
                                   gw.chat_history, gw.current_message_id)]
    /\ UNCHANGED <<db, tx, turns, ai_available, hq, pf>>

SpecFormat == InitFormat /\ [][FormatHistory]_vars

\* ------------------------------------------------ the history query, alone
\* the messages table after the committed turns of log, log[i] being the
\* session of the i-th turn: a user message, then the reply
TableOf(log) ==
    [k \in 1..(2 * Len(log)) |->
        MessageRow(log[(k + 1) \div 2],
                   IF k % 2 = 1 THEN "user" ELSE "devy",
                   Prose(<<"h", "i">>), k)]

InitHistory ==
    /\ tx = [p \in Procs |-> IdleTx]
    /\ turns = 0
    /\ ai_available = TRUE
    /\ gw = GwIdle
    /\ hq = HqIdle
    /\ pf = PfIdle
    /\ \E n \in 0..MaxLog :
          \E log \in [1..n -> Tokens] :
             db = [EmptyStore EXCEPT
                     !.sessions = [t \in {log[i] : i \in 1..n}
                                      |-> SessionRow(0, EmptyCtx)],
                     !.messages = TableOf(log)]

\* one call of ChatService.get_chat_history
QueryHistory(session_id) ==
    /\ hq' = [phase |-> "asked", session_id |-> session_id,
              result |-> get_chat_history(db.messages, session_id, HistoryLimit)]
    /\ UNCHANGED <<db, tx, turns, ai_available, gw, pf>>

NextHistory == \E t \in Tokens : QueryHistory(t)

SpecHistory == InitHistory /\ [][NextHistory]_vars

\* --------------------------------------------- session resolution, alone
StoredContexts ==
    {NullCtx, NoProfileCtx, ProfileCtx(MalformedProfile), EmptyCtx,
     ProfileCtx(NamedProfile(NameA))}

\* a database whose sessions were written by anyone
InitResolve ==
    /\ tx = [p \in Procs |-> IdleTx]
    /\ turns = 0
    /\ ai_available = TRUE
    /\ gw = GwIdle
    /\ hq = HqIdle
    /\ pf = PfIdle
    /\ \E S \in SUBSET Tokens :
          \E c \in [S -> StoredContexts] :
             db = [EmptyStore EXCEPT
                     !.sessions = [t \in S |-> SessionRow(0, c[t])]]

\* one call of ChatService.ensure_session_exists in the open transaction
ResolveCall(p, session_id) ==
    /\ tx[p].pc \in {"Idle", "Resolving"}
    /\ tx[p].resolve_calls < MaxResolveCalls
    /\ LET r == ensure_session_exists(p, tx[p].orm, session_id)
       IN tx' = [tx EXCEPT ![p] =
                    [tx[p] EXCEPT
                       !.pc = "Resolving",
                       !.prev_session_id = tx[p].session_id,
                       !.session_id = session_id,
                       !.orm = r.orm,
                       !.db_session = r.db_session,
                       !.resolve_calls = @ + 1,
                       !.user_profile = r.db_session.context_data.profile]]
    /\ UNCHANGED <<db, turns, ai_available, gw, hq, pf>>

\* the caller commits: "commit happens in the calling function"
ResolveCommit(p) ==
    /\ tx[p].pc = "Resolving"
    /\ LET f == Flush(p, tx[p].orm)
       IN IF f.ok
          THEN /\ db' = OverlayStore(db, f.fl)
               /\ tx' = [tx EXCEPT ![p] =
                            [IdleTx EXCEPT !.pc = "Resolved",
                                           !.session_id = tx[p].session_id,
                                           !.resolve_calls = tx[p].resolve_calls]]
          ELSE /\ db' = db
               /\ tx' = [tx EXCEPT ![p] =
                            Rollback(p, "Resolving", "IntegrityError")]
    /\ UNCHANGED <<turns, ai_available, gw, hq, pf>>

NextResolve ==
    \/ \E t \in Tokens : ResolveCall(1, t)
    \/ ResolveCommit(1)

SpecResolve == InitResolve /\ [][NextResolve]_vars

\* ------------------------------------------------- validation harness
Uuid1 ==
    <<"1", "2", "3", "e", "4", "5", "6", "7", "-", "e", "8", "9", "b", "-", "1", "2", "d", "3", "-", "a", "4", "5", "6", "-", "4", "2", "6", "6", "1", "4", "1", "7", "4", "0", "0", "0">>
Uuid2 ==
    <<"A", "B", "C", "D", "E", "F", "A", "B", "-", "C", "D", "E", "F", "-", "4", "B", "C", "D", "-", "8", "F", "A", "B", "-", "C", "D", "E", "F", "A", "B", "C", "D", "E", "F", "1", "2">>

Run(c, n) == [i \in 1..n |-> c]

ExampleText ==
    <<" ", " ", "a", " ", " ", " ", "b", " ", " ", "<", "s", "c", "r", "i", "p", "t", ">", "x", "<", "/", "s", "c", "r", "i", "p", "t", ">", " ">>

InitValidation ==
    /\ db = EmptyStore
    /\ tx = [p \in Procs |-> IdleTx]
    /\ turns = 0
    /\ ai_available = TRUE
    /\ gw = GwIdle
    /\ hq = HqIdle
    /\ LET \* session tokens: two UUIDs and what is one edit away from them
           TokenInputs ==
               {<<>>, Uuid1, Uuid2, Uuid1 \o <<"\n", "\n">>, Uuid1 \o Uuid1}
               \cup {[Uuid1 EXCEPT ![i] = c] :
                       i \in 1..UuidLength, c \in {"g", "-", "7", "F"}}
               \cup {SubSeq(Uuid1, 1, i - 1) \o SubSeq(Uuid1, i + 1, UuidLength) :
                       i \in 1..UuidLength}
               \cup {u \o <<c>> : u \in {Uuid1, Uuid2}, c \in {"\n", " ", "0", "-"}}
               \cup {<<c>> \o u : u \in {Uuid1, Uuid2}, c \in {"\n", " ", "0"}}
           \* user messages: two runs of a character each, short or about
           \* MaxMessageLength long, and texts with tags
           MessageInputs ==
               {<<"<", "a", ">">>, <<"<", "a", ">", " ", "<", "b", ">">>,
                <<"<", "a", ">", "h", "i">>, <<" ", "<", ">", " ">>}
               \cup
               {Run(a, n) \o Run(b, m) :
                   a \in {"a", "b", " "}, b \in {"a", "b", " "},
                   n \in 0..MaxRun, m \in 0..MaxRun}
               \cup {Run(a, n) \o Run(b, m) \o Run(a, k) :
                       a \in {"a", " "}, b \in {"b", " "},
                       n \in {MaxMessageLength - 1, MaxMessageLength},
                       m \in {0, MaxMessageLength \div 2}, k \in {0, 1}}
           \* texts to sanitize with the max_length to use
           SanitizeInputs ==
               {<<t, n>> : t \in UNION {[1..k -> {" ", "a", "<", ">"}] : k \in 0..MaxText},
                           n \in {MaxText - 2, SanitizeMaxLength}}
               \cup {<<ExampleText, SanitizeMaxLength>>}
       IN \/ \E t \in TokenInputs :
                pf = [PfIdle EXCEPT !.fn = "validate_session_id",
                                    !.phase = "input", !.text = t]
          \/ \E m \in MessageInputs :
                pf = [PfIdle EXCEPT !.fn = "validate_user_message",
                                    !.phase = "input", !.text = m]
          \/ \E i \in SanitizeInputs :
                pf = [PfIdle EXCEPT !.fn = "sanitize_string", !.phase = "input",
                                    !.text = i[1], !.max_length = i[2]]
          \/ \E d \in GatewayDocs :
                pf = [PfIdle EXCEPT !.fn = "validate_assessment_data",
                                    !.phase = "input", !.doc = d]

ValidateSessionId ==
    /\ pf.phase = "input" /\ pf.fn = "validate_session_id"
    /\ pf' = [pf EXCEPT !.phase = "output", !.ok = validate_session_id(pf.text)]
    /\ UNCHANGED <<db, tx, turns, ai_available, gw, hq>>

ValidateUserMessage ==
    /\ pf.phase = "input" /\ pf.fn = "validate_user_message"
    /\ pf' = [pf EXCEPT !.phase = "output",
                        !.ok = validate_user_message(pf.text).ok,
                        !.reason = validate_user_message(pf.text).reason]
    /\ UNCHANGED <<db, tx, turns, ai_available, gw, hq>>

SanitizeString ==
    /\ pf.phase = "input" /\ pf.fn = "sanitize_string"
    /\ pf' = [pf EXCEPT !.phase = "output",
                        !.out = sanitize_string(pf.text, pf.max_length)]
    /\ UNCHANGED <<db, tx, turns, ai_available, gw, hq>>

ValidateAssessmentData ==
    /\ pf.phase = "input" /\ pf.fn = "validate_assessment_data"
    /\ pf' = [pf EXCEPT !.phase = "output",
                        !.ok = validate_assessment_data(pf.doc).ok,
                        !.errors = validate_assessment_data(pf.doc).errors]
    /\ UNCHANGED <<db, tx, turns, ai_available, gw, hq>>

\* ChatService.save_user_message, line 116, on a message that
\* validate_user_message accepted: the content that is stored
SaveAcceptedMessage ==
    /\ pf.phase = "output" /\ pf.fn = "validate_user_message"
    /\ pf.ok
    /\ pf' = [pf EXCEPT !.phase = "stored",
                        !.out = sanitize_string(pf.text, SanitizeMaxLength)]
    /\ UNCHANGED <<db, tx, turns, ai_available, gw, hq>>

NextValidation ==
    \/ ValidateSessionId
    \/ ValidateUserMessage
    \/ SaveAcceptedMessage
    \/ SanitizeString
    \/ ValidateAssessmentData

SpecValidation == InitValidation /\ [][NextValidation]_vars

\* ------------------------------------------- POST /chat (main.py)
\* request.session.get("session_id"): "" when the cookie holds none, a
\* UUID, or some other string
RequestTokens == {"", "bad", "s1"}

\* the characters of a token
TokenText(t) ==
    CASE t = "" -> <<>>
      [] t = "s1" -> Uuid1
      [] t = "s2" -> Uuid2
      [] OTHER -> <<"b", "a", "d">>

\* the form field user_message: a greeting, blanks, one repeated character
RequestMessages == {<<"h", "i">>, <<" ", " ">>, Run("a", MaxRun)}

\* handle_chat_message, lines 153-161: no session id, HTTP 400
HandleChatMissingSession(p, user_message) ==
    /\ tx[p].pc \in {"Idle", "ChatDone"}
    /\ turns < MaxTurns
    /\ turns' = turns + 1
    /\ tx' = [tx EXCEPT ![p] =
                 [IdleTx EXCEPT !.pc = "ChatDone",
                                !.user_message = user_message,
                                !.before = db,
                                !.out = [NoOutput EXCEPT !.status = "HTTP400"]]]
    /\ UNCHANGED <<db, ai_available, gw, hq, pf>>

\* handle_chat_message, lines 163-194: find or add the Session, repair its
\* context, read the profile, add the user message as typed, flush
HandleChatBegin(p, session_id, user_message) ==
    /\ tx[p].pc \in {"Idle", "ChatDone"}
    /\ session_id # ""
    /\ turns < MaxTurns
    /\ turns' = turns + 1
    /\ LET r == ensure_session_exists(p, EmptyOrm, session_id)
           orm == [r.orm EXCEPT
                     !.new_messages =
                         Append(@, [session_id |-> session_id, sender |-> "user",
                                    content |-> Prose(user_message)])]
           f == Flush(p, orm)
       IN tx' = [tx EXCEPT ![p] =
                    [IdleTx EXCEPT
                       !.pc = "ChatUserMessageStored",
                       !.session_id = session_id,
                       !.user_message = user_message,
                       !.before = db,
                       !.fl = f.fl,
                       !.db_session = r.db_session,
                       !.user_profile = r.db_session.context_data.profile,
                       !.user_msg_id = f.message_id]]
    /\ UNCHANGED <<db, ai_available, gw, hq, pf>>

\* the Session row of the turn as the handler's Session object holds it
ChatSessionRow(t) ==
    IF t.session_id \in DOMAIN t.orm.sessions
    THEN t.orm.sessions[t.session_id]
    ELSE OverlayStore(db, t.fl).sessions[t.session_id]

\* handle_chat_message, lines 450-464, on the locals t: a linked session
\* whose profile has no name gets the name of its user; user_profile.get
\* raises AttributeError on a profile that is no mapping, which line 476
\* catches
ChatBackfillName(t) ==
    LET row == ChatSessionRow(t)
        users == Overlay(OverlayStore(db, t.fl).users, t.orm.users)
    IN IF row.user_id = 0 \/ ~t.user_profile.is_map THEN t
       ELSE IF t.user_profile.has_name /\ t.user_profile.name # <<>> THEN t
       ELSE IF row.user_id \notin DOMAIN users \/ users[row.user_id].name = <<>>
       THEN t
       ELSE [t EXCEPT
               !.user_profile = NamedProfile(users[row.user_id].name),
               !.orm = [@ EXCEPT !.sessions =
                           Overlay(@, [k \in {t.session_id} |->
                               [row EXCEPT !.context_data =
                                   ProfileCtx(NamedProfile(users[row.user_id].name))]])]]

\* handle_chat_message, lines 374-432, on the locals t of request p: find
\* the User by name or add and flush one, overwrite its fields, link the
\* session, add the Assessment
ChatRecordAssessment(p, t) ==
    LET payload == t.recommendation_payload
        found == {k \in DOMAIN View(p).users : View(p).users[k].name = payload.name}
        f == Flush(p, [EmptyOrm EXCEPT !.new_users = <<UserFromSummary(payload)>>])
        uid == IF found = {} THEN f.user_id
               ELSE CHOOSE k \in found : \A j \in found : k <= j
        t1 == IF found = {} THEN [t EXCEPT !.fl = f.fl]
              ELSE [t EXCEPT !.orm = [@ EXCEPT !.users =
                                Overlay(@, [j \in {uid} |-> UserFromSummary(payload)])]]
        row == [ChatSessionRow(t1) EXCEPT !.user_id = uid]
    IN [t1 EXCEPT
          !.db_user_id = uid,
          !.orm = [@ EXCEPT
                     !.sessions = Overlay(@, [k \in {t.session_id} |-> row]),
                     !.new_assessments =
                         Append(@, AssessmentRow(t.session_id, uid, payload))]]

\* handle_chat_message, lines 353-464: the raw answer is an assessment when
\* it parses as JSON and validates, else it is the reply as it came
ChatClassify(p, t, raw) ==
    LET parsed == json_loads(raw)
    IN IF ~(parsed.ok /\ model_validate_ok(parsed.doc))
       THEN ChatBackfillName([t EXCEPT !.response_content = raw])
       ELSE LET t1 == [t EXCEPT
                         !.response_content = AckText,
                         !.is_assessment_complete = TRUE,
                         !.has_payload = TRUE,
                         !.recommendation_payload = model_validate(parsed.doc)]
            IN IF t1.recommendation_payload.name = <<>>
               THEN ChatBackfillName(t1)
               ELSE ChatBackfillName(ChatRecordAssessment(p, t1))

\* handle_chat_message, lines 196-481: the apology of line 196 without a
\* client and after an error line 476 catches, else
\* the history, the call of the model and what is made of its answer
HandleChatAI(p, llm) ==
    /\ tx[p].pc = "ChatUserMessageStored"
    /\ LET t0 == [tx[p] EXCEPT !.pc = "ChatAIResponded",
                               !.response_content =
                                   Prose(<<"I'm having a little trouble connecting to my brain right now. Please try again in a moment.">>)]
           history == get_chat_history(View(p).messages, tx[p].session_id,
                                       HistoryLimit)
           t == [t0 EXCEPT
                   !.llm = llm, !.llm_calls = @ + 1,
                   !.chat_history = history,
                   !.request =
                       [sent |-> TRUE, profile |-> tx[p].user_profile,
                        messages |->
                            _format_conversation_history(history, tx[p].user_msg_id)
                            \o <<[role |-> "user",
                                  content |-> Prose(tx[p].user_message)]>>]]
       IN tx' = [tx EXCEPT ![p] =
                    IF ~ai_available THEN t0
                    ELSE CASE llm.kind = "status_error" ->
                                 [t EXCEPT !.response_content = StatusErrorText]
                           [] llm.kind = "api_error" ->
                                 [t EXCEPT !.response_content = ApiErrorText]
                           [] llm.kind \in {"transport_error", "null_content"} -> t
                           [] llm.kind = "empty_choices" -> ChatClassify(p, t, EmptyText)
                           [] OTHER -> ChatClassify(p, t, llm.text)]
    /\ UNCHANGED <<db, turns, ai_available, gw, hq, pf>>

\* handle_chat_message, lines 483-500: add the reply as the message of the
\* assistant and commit; a commit that raises is logged and rolled back
HandleChatCommit(p, raises) ==
    /\ tx[p].pc = "ChatAIResponded"
    /\ LET orm == [tx[p].orm EXCEPT
                     !.new_messages =
                         Append(@, [session_id |-> tx[p].session_id,
                                    sender |-> "devy",
                                    content |-> tx[p].response_content])]
           f == Flush(p, orm)
       IN IF f.ok /\ ~raises
          THEN /\ db' = OverlayStore(db, f.fl)
               /\ tx' = [tx EXCEPT ![p] =
                            [tx[p] EXCEPT !.pc = "ChatCommitted",
                                          !.fl = EmptyStore, !.orm = EmptyOrm]]
          ELSE /\ db' = db
               /\ tx' = [tx EXCEPT ![p] =
                            [tx[p] EXCEPT
                               !.pc = "ChatCommitFailed",
                               !.fl = EmptyStore, !.orm = EmptyOrm,
                               !.failed_at = "ChatAIResponded",
                               !.error = IF f.ok THEN "Exception"
                                         ELSE "IntegrityError"]]
    /\ UNCHANGED <<turns, ai_available, gw, hq, pf>>

\* the ChatOutput is returned although the commit was rolled back
HandleChatReturnUnrefreshed(p) ==
    /\ tx[p].pc \in {"ChatCommitted", "ChatCommitFailed"}
    /\ tx' = [tx EXCEPT ![p] =
                 [tx[p] EXCEPT
                    !.pc = "ChatDone",
                    !.out = [status |-> "ok",
                             devy_response |-> tx[p].response_content,
                             session_id |-> tx[p].session_id,
                             is_assessment_complete |-> tx[p].is_assessment_complete,
                             has_payload |-> tx[p].has_payload,
                             recommendation_payload |->
                                 tx[p].recommendation_payload]]]
    /\ UNCHANGED <<db, turns, ai_available, gw, hq, pf>>

\* handle_chat_message, lines 502-521: the Session is active after a commit
\* and after a rollback alike, so the objects are refreshed; after the
\* rollback db_user_msg, flushed in the transaction that was rolled back,
\* is no longer persistent and Session.refresh raises InvalidRequestError,
\* which nothing catches: HTTP 500. After the commit the ChatOutput is
\* returned.
HandleChatReturn(p) ==
    /\ tx[p].pc \in {"ChatCommitted", "ChatCommitFailed"}
    /\ tx' = [tx EXCEPT ![p] =
                 IF tx[p].pc = "ChatCommitFailed"
                 THEN [tx[p] EXCEPT
                         !.pc = "ChatDone",
                         !.out = [NoOutput EXCEPT !.status = "HTTP500"]]
                 ELSE [tx[p] EXCEPT
                         !.pc = "ChatDone",
                         !.out = [status |-> "ok",
                                  devy_response |-> tx[p].response_content,
                                  session_id |-> tx[p].session_id,
                                  is_assessment_complete |->
                                      tx[p].is_assessment_complete,
                                  has_payload |-> tx[p].has_payload,
                                  recommendation_payload |->
                                      tx[p].recommendation_payload]]]
    /\ UNCHANGED <<db, turns, ai_available, gw, hq, pf>>

\* handle_chat_message, lines 163-194: a query or the flush raises, nothing
\* catches it, get_db closes the Session: HTTP 500, nothing written
HandleChatBeginRaises(p, session_id, user_message) ==
    /\ tx[p].pc \in {"Idle", "ChatDone"}
    /\ session_id # ""
    /\ turns < MaxTurns
    /\ turns' = turns + 1
    /\ tx' = [tx EXCEPT ![p] =
                 [IdleTx EXCEPT !.pc = "ChatDone",
                                !.session_id = session_id,
                                !.user_message = user_message,
                                !.before = db,
                                !.failed_at = "Idle", !.error = "Exception",
                                !.out = [NoOutput EXCEPT !.status = "HTTP500"]]]
    /\ UNCHANGED <<db, ai_available, gw, hq, pf>>

\* a database that may hold session s1 with a context written by anyone
InitHandler ==
    /\ tx = [p \in Procs |-> IdleTx]
    /\ turns = 0
    /\ ai_available \in BOOLEAN
    /\ gw = GwIdle
    /\ hq = HqIdle
    /\ pf = PfIdle
    /\ \/ db = EmptyStore
       \/ \E c \in StoredContexts :
             db = [EmptyStore EXCEPT
                     !.sessions = [t \in {"s1"} |-> SessionRow(0, c)]]

NextHandler ==
    \/ \E m \in RequestMessages : HandleChatMissingSession(1, m)
    \/ \E t \in RequestTokens, m \in RequestMessages : HandleChatBegin(1, t, m)
    \/ \E t \in RequestTokens, m \in RequestMessages : HandleChatBeginRaises(1, t, m)
    \/ \E llm \in {LLMOutcome("ok", Prose(<<"Tell me your name!">>)),
                   LLMOutcome("ok", JsonText(ValidA)),
                   LLMOutcome("ok", JsonText(Nameless)),
                   LLMOutcome("status_error", EmptyText),
                   LLMOutcome("api_error", EmptyText),
                   LLMOutcome("transport_error", EmptyText),
                   LLMOutcome("empty_choices", EmptyText),
                   LLMOutcome("null_content", EmptyText)} : HandleChatAI(1, llm)
    \/ \E raises \in BOOLEAN : HandleChatCommit(1, raises)
    \/ HandleChatReturn(1)

SpecHandler == InitHandler /\ [][NextHandler]_vars

\* ------------------------------------------- two requests at a time
\* get_db gives every request a Session of its own (SessionLocal), so two
\* turns run as two transactions whose steps interleave; request 1 chats
\* on session s1 and request 2 on session s2
InitConcurrent ==
    /\ db = EmptyStore
    /\ tx = [p \in Procs |-> IdleTx]
    /\ turns = 0
    /\ ai_available = TRUE
    /\ gw = GwIdle
    /\ hq = HqIdle
    /\ pf = PfIdle

NextConcurrent ==
    \E p \in Procs :
        \/ ResolveSession(p, IF p = 1 THEN "s1" ELSE "s2", <<"h", "i">>)
        \/ SaveUserMessage(p)
        \/ LoadHistory(p)
        \/ \E llm \in {LLMOutcome("ok", Prose(<<"Tell me your name!">>)),
                       LLMOutcome("ok", JsonText(ValidA)),
                       LLMOutcome("ok", JsonText(ValidA2))} : InvokeAI(p, llm)
        \/ SkipAssessment(p)
        \/ CreateUserFromAssessment(p)
        \/ UpdateUserFromAssessment(p)
        \/ SaveAIMessage(p)
        \/ Commit(p)
        \/ ReturnOutput(p)
        \/ StepRaises(p)

SpecConcurrent == InitConcurrent /\ [][NextConcurrent]_vars

\* ================================================================ claims
\* the assessment shape of validate_assessment_data, read off the raw
\* document: three top-level keys, a non-empty name, exactly
\* NumCareerPaths recommendations, each with its four keys and an integer
\* match_score in MinScore..MaxScore
AssessmentShape(doc) ==
    /\ doc.object
    /\ TopKeys \subseteq doc.keys
    /\ doc.has_name /\ doc.name # <<>>
    /\ Len(doc.recs) = NumCareerPaths
    /\ \A i \in 1..Len(doc.recs) :
          /\ RecKeys \subseteq doc.recs[i].keys
          /\ doc.recs[i].score_kind = "int"
          /\ doc.recs[i].match_score \in MinScore..MaxScore

SessionAssessments(store, sid) ==
    {k \in DOMAIN store.assessments : store.assessments[k].session_id = sid}

\* C1: a turn that raises at any step up to and including its commit
\* leaves the committed store exactly as it was when the turn began,
\* nothing of the turn stays flushed or pending, and the caller gets
\* ChatServiceError.
C1_TurnIsAtomic ==
    \A p \in Procs :
        (tx[p].pc = "Error" /\ tx[p].failed_at # "Committed")
        => /\ db = tx[p].before
           /\ tx[p].fl = EmptyStore
           /\ tx[p].orm = EmptyOrm
           /\ tx[p].out.status = "ChatServiceError"

\* the commit of a second turn raised
C1_Witness ==
    /\ tx[1].pc = "Error"
    /\ tx[1].failed_at = "AssistantMessageStored"
    /\ tx[1].error = "Exception"
    /\ DOMAIN db.messages # {}

\* C2: in every committed state a session has at most one Assessment row
\* and every Assessment row references an existing User.
C2_OneAssessmentPerSession ==
    /\ \A a, b \in DOMAIN db.assessments :
          db.assessments[a].session_id = db.assessments[b].session_id => a = b
    /\ \A a \in DOMAIN db.assessments :
          db.assessments[a].user_id \in DOMAIN db.users

\* a turn tried to give an assessed session a second assessment
C2_Witness ==
    /\ tx[1].pc = "Error"
    /\ tx[1].error = "IntegrityError"
    /\ SessionAssessments(db, tx[1].session_id) # {}

\* C3: a committed turn whose reply is not an assessment adds exactly one
\* user message and one later assistant message to its session, changes no
\* other message, no Assessment and no User, and reports
\* is_assessment_complete = false without a payload.
C3_ConversationTurn ==
    \A p \in Procs :
        (tx[p].pc = "Done" /\ ~tx[p].is_assessment_complete)
        => LET before == tx[p].before
               new == DOMAIN db.messages \ DOMAIN before.messages
           IN /\ \A k \in DOMAIN before.messages :
                    k \in DOMAIN db.messages /\ db.messages[k] = before.messages[k]
              /\ \E u, a \in new :
                    /\ new = {u, a} /\ u # a
                    /\ db.messages[u].sender = "user"
                    /\ db.messages[a].sender = "devy"
                    /\ db.messages[u].session_id = tx[p].session_id
                    /\ db.messages[a].session_id = tx[p].session_id
                    /\ db.messages[u].timestamp < db.messages[a].timestamp
              /\ db.assessments = before.assessments
              /\ db.users = before.users
              /\ tx[p].out.status = "ok"
              /\ ~tx[p].out.is_assessment_complete
              /\ ~tx[p].out.has_payload

\* a conversational answer of the model, committed on a session that has
\* messages already
C3_Witness ==
    /\ tx[1].pc = "Done"
    /\ tx[1].llm_calls = 1
    /\ tx[1].llm.kind = "ok"
    /\ ~tx[1].is_assessment_complete
    /\ \E k \in DOMAIN tx[1].before.messages :
          tx[1].before.messages[k].session_id = tx[1].session_id

\* C4: a committed turn in which the model answered with an assessment of
\* the full shape naming N, on a session without an Assessment: a User
\* named N exists, the session references it, the session has exactly one
\* Assessment and it references that User, and the output is complete
\* with NumCareerPaths recommendations.
C4_AssessmentTurn ==
    \A p \in Procs :
        (/\ tx[p].pc = "Done"
         /\ tx[p].llm_calls = 1
         /\ tx[p].llm.kind = "ok"
         /\ json_loads(tx[p].llm.text).ok
         /\ AssessmentShape(json_loads(tx[p].llm.text).doc)
         /\ SessionAssessments(tx[p].before, tx[p].session_id) = {})
        => LET sid == tx[p].session_id
               name == json_loads(tx[p].llm.text).doc.name
           IN /\ \E u \in DOMAIN db.users :
                    /\ db.users[u].name = name
                    /\ db.sessions[sid].user_id = u
                    /\ \E a \in DOMAIN db.assessments :
                          /\ SessionAssessments(db, sid) = {a}
                          /\ db.assessments[a].user_id = u
              /\ tx[p].out.status = "ok"
              /\ tx[p].out.is_assessment_complete
              /\ tx[p].out.has_payload
              /\ Len(tx[p].out.recommendation_payload.scores) = NumCareerPaths

\* a full assessment naming A, committed
C4_Witness ==
    /\ tx[1].pc = "Done"
    /\ tx[1].llm = LLMOutcome("ok", JsonText(ValidA))
    /\ tx[1].out.is_assessment_complete
    /\ SessionAssessments(db, tx[1].session_id) # {}

\* C5: what the gateway returns is a reply or an assessment, never both:
\* with is_assessment the text is the fixed acknowledgement and the payload
\* is there; without it the payload is absent and the text is the raw
\* answer of the model, or an error string when the call failed.
C5_ReplyOrAssessment ==
    (gw.phase = "output" /\ ~gw.result.raised)
    => /\ gw.result.is_assessment
            => gw.result.has_payload /\ gw.result.response_content = AckText
       /\ ~gw.result.is_assessment
            => /\ ~gw.result.has_payload
               /\ gw.result.payload = NoPayload
               /\ IF gw.llm.kind = "ok"
                  THEN gw.result.response_content = gw.llm.text
                  ELSE gw.result.response_content
                           \in {StatusErrorText, ApiErrorText, TroubleText}

\* the gateway has returned an assessment
C5_Witness ==
    /\ gw.phase = "output"
    /\ gw.result.is_assessment
    /\ gw.llm.text.chars = ObjectToken

Replayed(h, x) ==
    {i \in 1..Len(h) :
        /\ h[i].id # x
        /\ \/ h[i].sender = "user"
           \/ h[i].sender = "devy" /\ ~json_loads(h[i].content).ok}

\* the j-th smallest element of a set of numbers
Nth(K, j) == CHOOSE i \in K : Cardinality({k \in K : k < i}) = j - 1

\* C7: the replay has one entry for each message that is not the one left
\* out and not an assistant message that parses as JSON, in the order of
\* the history, a user message as a user turn and an assistant message as
\* an assistant turn; it has no other entry.
C7_Replay ==
    gw.phase = "formatted"
    => LET h == gw.chat_history
           K == Replayed(h, gw.current_message_id)
       IN /\ Len(gw.formatted) = Cardinality(K)
          /\ \A j \in 1..Len(gw.formatted) :
                /\ gw.formatted[j].content = h[Nth(K, j)].content
                /\ gw.formatted[j].role =
                       IF h[Nth(K, j)].sender = "user" THEN "user" ELSE "assistant"

\* a history of three that holds the message left out and a JSON reply
C7_Witness ==
    /\ gw.phase = "formatted"
    /\ Len(gw.chat_history) = 3
    /\ Len(gw.formatted) = 1
    /\ \E i \in 1..3 : gw.chat_history[i].id = gw.current_message_id
    /\ \E i \in 1..3 :
          /\ gw.chat_history[i].id # gw.current_message_id
          /\ gw.chat_history[i].sender = "devy"
          /\ json_loads(gw.chat_history[i].content).ok

SessionMessages(store, sid) ==
    {k \in DOMAIN store.messages : store.messages[k].session_id = sid}

\* C8: the history loaded is made of the HistoryLimit latest messages of
\* the session (all of them when there are fewer), oldest first; no row
\* of another session is in it and every row of the session left out is
\* older than every row returned.
C8_RecentHistory ==
    hq.phase = "asked"
    => LET r == hq.result
           M == SessionMessages(db, hq.session_id)
       IN /\ Len(r) = MinOf(HistoryLimit, Cardinality(M))
          /\ \A i \in 1..Len(r) :
                /\ r[i].id \in M
                /\ r[i].session_id = hq.session_id
                /\ r[i].sender = db.messages[r[i].id].sender
                /\ r[i].content = db.messages[r[i].id].content
                /\ r[i].timestamp = db.messages[r[i].id].timestamp
          /\ \A i, j \in 1..Len(r) : i < j => r[i].timestamp < r[j].timestamp
          /\ \A k \in M \ {r[i].id : i \in 1..Len(r)} :
                \A i \in 1..Len(r) : db.messages[k].timestamp < r[i].timestamp

\* a session with more than HistoryLimit messages, beside another session
C8_Witness ==
    /\ hq.phase = "asked"
    /\ Cardinality(SessionMessages(db, hq.session_id)) > HistoryLimit
    /\ Len(hq.result) = HistoryLimit
    /\ \E k \in DOMAIN db.messages : db.messages[k].session_id # hq.session_id

WellFormed(ctx) == ~ctx.is_null /\ ctx.has_profile /\ ctx.profile.is_map

\* C9: a call of ensure_session_exists for a token that has a Session row
\* leaves a well-formed context as stored and marks nothing for writing;
\* a second call in a row for that token adds no Session and changes
\* neither the unit of work nor the object returned.
C9_ResolveIdempotent ==
    [][(/\ tx'[1].pc = "Resolving"
        /\ tx'[1].resolve_calls = tx[1].resolve_calls + 1
        /\ tx'[1].session_id \in DOMAIN db.sessions)
       => /\ tx'[1].orm.new_sessions = tx[1].orm.new_sessions
          /\ WellFormed(db.sessions[tx'[1].session_id].context_data)
               => /\ tx'[1].orm = tx[1].orm
                  /\ tx'[1].db_session = db.sessions[tx'[1].session_id]
          /\ (tx[1].pc = "Resolving" /\ tx[1].session_id = tx'[1].session_id)
               => /\ tx'[1].orm = tx[1].orm
                  /\ tx'[1].db_session = tx[1].db_session]_vars

\* two calls in a row for a stored session whose profile holds a name
C9_Witness ==
    /\ tx[1].pc = "Resolving"
    /\ tx[1].resolve_calls >= 2
    /\ tx[1].prev_session_id = tx[1].session_id
    /\ tx[1].session_id \in DOMAIN db.sessions
    /\ db.sessions[tx[1].session_id].context_data = ProfileCtx(NamedProfile(NameA))

\* C10 as claimed: the Session object resolution returns always holds a
\* user_profile mapping.
C10_ProfileAlwaysMapping ==
    tx[1].pc = "Resolving" => WellFormed(tx[1].db_session.context_data)

\* the messages a finished turn of request p added to the store
TurnMessages(p) == DOMAIN db.messages \ DOMAIN tx[p].before.messages

\* the turn of request p stored its user message, sanitized, and then
\* reply as the message of the assistant, and nothing else
StoredUserAndReply(p, reply) ==
    /\ \A k \in DOMAIN tx[p].before.messages :
          k \in DOMAIN db.messages /\ db.messages[k] = tx[p].before.messages[k]
    /\ \E u, a \in TurnMessages(p) :
          /\ TurnMessages(p) = {u, a} /\ u # a
          /\ db.messages[u] =
                [session_id |-> tx[p].session_id, sender |-> "user",
                 content |-> Prose(sanitize_string(tx[p].user_message,
                                                   SanitizeMaxLength)),
                 timestamp |-> db.messages[u].timestamp]
          /\ db.messages[a] =
                [session_id |-> tx[p].session_id, sender |-> "devy",
                 content |-> reply,
                 timestamp |-> db.messages[a].timestamp]
          /\ db.messages[u].timestamp < db.messages[a].timestamp

AfterAI == {"AIResponded", "AssessmentHandled", "AssistantMessageStored",
            "Committed", "Done"}

\* C12: when the AI service is not available a turn makes no call of the
\* model, its reply is the fixed apology without assessment or payload,
\* and once it is done the user message and the apology are committed.
C12_UnavailableTurn ==
    \A p \in Procs :
        (~ai_available /\ tx[p].pc \in AfterAI)
        => /\ tx[p].llm_calls = 0
           /\ ~tx[p].request.sent
           /\ tx[p].response_content = UnavailableText
           /\ ~tx[p].is_assessment_complete
           /\ ~tx[p].has_payload
           /\ tx[p].pc = "Done"
                => /\ StoredUserAndReply(p, UnavailableText)
                   /\ tx[p].out.status = "ok"
                   /\ tx[p].out.devy_response = UnavailableText
                   /\ ~tx[p].out.is_assessment_complete
                   /\ ~tx[p].out.has_payload
                   /\ db.users = tx[p].before.users
                   /\ db.assessments = tx[p].before.assessments

\* a second turn done without the AI service
C12_Witness ==
    /\ ~ai_available
    /\ tx[1].pc = "Done"
    /\ tx[1].response_content = UnavailableText
    /\ Cardinality(DOMAIN db.messages) = 4

C15_CanonicalUuidOnly ==
    (pf.phase = "output" /\ pf.fn = "validate_session_id")
    => (pf.ok <=> /\ Len(pf.text) = UuidLength
                  /\ \A i \in 1..UuidLength :
                        IF i \in HyphenPositions THEN pf.text[i] = "-"
                        ELSE IsHex(pf.text[i]))

\* C16 as claimed: validate_user_message accepts exactly the messages of
\* stripped length >= MinMessageLength and raw length <= MaxMessageLength
\* in which no character makes up more than 80% of the message, with the
\* reason empty, too long or spam whenever that condition is broken.
C16_MessageRules ==
    (pf.phase = "output" /\ pf.fn = "validate_user_message")
    => LET m == pf.text
           empty == StrippedLength(m) < MinMessageLength
           long == Len(m) > MaxMessageLength
           spam == \E i \in 1..Len(m) : 10 * CountChar(m, m[i]) > 8 * Len(m)
       IN /\ pf.ok <=> ~empty /\ ~long /\ ~spam
          /\ empty => pf.reason = "Message cannot be empty"
          /\ (long /\ ~empty) => pf.reason = "Message is too long"
          /\ (spam /\ ~empty /\ ~long) => pf.reason = "Message appears to be spam"

\* C17 as claimed: the sanitized text is at most max_length long, has no
\* whitespace at either end, no two whitespace characters in a row and no
\* "<" followed later by ">"; the example text gives "a b".
C17_SanitizedText ==
    (pf.phase = "output" /\ pf.fn = "sanitize_string")
    => LET r == pf.out
       IN /\ Len(r) <= pf.max_length
          /\ r # <<>> => ~IsSpace(r[1]) /\ ~IsSpace(r[Len(r)])
          /\ \A i \in 1..(Len(r) - 1) : ~(IsSpace(r[i]) /\ IsSpace(r[i + 1]))
          /\ \A i, j \in 1..Len(r) : ~(i < j /\ r[i] = "<" /\ r[j] = ">")
          /\ pf.text = ExampleText => r = <<"a", " ", "b">>

\* the requirements of the assessment shape a document breaks, each one
\* taken by itself
BrokenRequirements(doc) ==
    {ShapeError("missing_key", 0, k) : k \in TopKeys \ doc.keys}
    \cup (IF "user_summary" \in doc.keys /\ (~doc.has_name \/ doc.name = <<>>)
          THEN {ShapeError("name", 0, "name")} ELSE {})
    \cup (IF "career_recommendations" \in doc.keys
             /\ Len(doc.recs) # NumCareerPaths
          THEN {ShapeError("count", 0, "career_recommendations")} ELSE {})
    \cup (IF "career_recommendations" \in doc.keys
          THEN UNION {RecommendationErrors(doc.recs[i], i) : i \in 1..Len(doc.recs)}
          ELSE {})

\* C18 as claimed: validate_assessment_data returns ok exactly for the
\* documents of the assessment shape, and when it does not its error
\* list has an entry for every requirement the document breaks.
C18_AllViolationsReported ==
    (pf.phase = "output" /\ pf.fn = "validate_assessment_data" /\ pf.doc.object)
    => /\ pf.ok <=> AssessmentShape(pf.doc)
       /\ BrokenRequirements(pf.doc) \subseteq pf.errors

\* C19: a call of create_new_session that succeeds adds one Session row
\* under a token no session had, with an empty user_profile and no user,
\* returns that token and leaves every other row as it was; a call that
\* fails changes nothing in the store.
C19_NewSession ==
    [][(tx'[1].pc = "Idle" /\ tx'[1].out.status \in {"created", "ChatServiceError"})
       => IF tx'[1].out.status = "created"
          THEN LET t == tx'[1].out.session_id
               IN /\ t \notin DOMAIN db.sessions
                  /\ DOMAIN db'.sessions = DOMAIN db.sessions \cup {t}
                  /\ db'.sessions[t] = SessionRow(0, EmptyCtx)
                  /\ \A k \in DOMAIN db.sessions : db'.sessions[k] = db.sessions[k]
                  /\ db'.messages = db.messages
                  /\ db'.users = db.users
                  /\ db'.assessments = db.assessments
          ELSE db' = db]_vars

\* a session created beside a session that has messages and an assessment
C19_Witness ==
    /\ tx[1].pc = "Idle"
    /\ tx[1].out.status = "created"
    /\ Cardinality(DOMAIN db.sessions) = 2
    /\ db.messages # NoRows
    /\ db.assessments # NoRows

\* C20: no two User rows have the same name, and a finished turn whose
\* assessment names a user that existed before the turn adds no User row
\* and links the session to the existing one.
C20_UsersUniqueByName ==
    /\ \A a, b \in DOMAIN db.users : db.users[a].name = db.users[b].name => a = b
    /\ \A p \in Procs :
          (/\ tx[p].pc = "Done"
           /\ tx[p].is_assessment_complete
           /\ tx[p].recommendation_payload.name # <<>>)
          => \A k \in DOMAIN tx[p].before.users :
                tx[p].before.users[k].name = tx[p].recommendation_payload.name
                => /\ DOMAIN db.users = DOMAIN tx[p].before.users
                   /\ db.sessions[tx[p].session_id].user_id = k
                   /\ db.users[k] = UserFromSummary(tx[p].recommendation_payload)

\* a second session assessed for the user of the first
C20_Witness ==
    /\ tx[1].pc = "Done"
    /\ tx[1].is_assessment_complete
    /\ \E k \in DOMAIN tx[1].before.users :
          tx[1].before.users[k].name = tx[1].recommendation_payload.name
    /\ Cardinality(DOMAIN db.assessments) = 2

\* C11 as claimed: a request whose session token is missing or is not a
\* UUID, or whose message fails validate_user_message, is answered with a
\* client error, and it writes no row and makes no call of the model.
C11_RejectedBeforePersistence ==
    (/\ tx[1].pc # "Idle"
     /\ \/ ~validate_session_id(TokenText(tx[1].session_id))
        \/ ~validate_user_message(tx[1].user_message).ok)
    => /\ tx[1].pc = "ChatDone"
       /\ tx[1].out.status = "HTTP400"
       /\ tx[1].llm_calls = 0
       /\ tx[1].fl = EmptyStore
       /\ db = tx[1].before

C21_FixedStepOrder ==
    [][\A p \in Procs :
         LET a == tx[p].pc
             t == tx'[p]
             b == t.pc
             \* the replies the turn holds pending or flushed
             replies ==
                 {i \in 1..Len(t.orm.new_messages) :
                     t.orm.new_messages[i].sender = "devy"}
                 \cup {k \in DOMAIN t.fl.messages : t.fl.messages[k].sender = "devy"}
         IN /\ (a # b /\ b \notin {"Idle", "Error"})
                => <<a, b>> \in
                     {<<"Idle", "SessionResolved">>, <<"Done", "SessionResolved">>,
                      <<"Error", "SessionResolved">>,
                      <<"SessionResolved", "UserMessageStored">>,
                      <<"UserMessageStored", "HistoryLoaded">>,
                      <<"HistoryLoaded", "AIResponded">>,
                      <<"AIResponded", "AssessmentHandled">>,
                      <<"AssessmentHandled", "AssistantMessageStored">>,
                      <<"AssistantMessageStored", "Committed">>,
                      <<"Committed", "Done">>}
            /\ (a \in Active /\ db' # db)
                => (a = "AssistantMessageStored" /\ b = "Committed")
            /\ b \in (Active \ {"Committed"}) => db' = t.before
            /\ b \in {"Committed", "Done"}
                => /\ t.fl = EmptyStore /\ t.orm = EmptyOrm
                   /\ \E k \in DOMAIN db'.messages \ DOMAIN t.before.messages :
                         /\ db'.messages[k].sender = "devy"
                         /\ db'.messages[k].content = t.response_content
                         /\ db'.messages[k].timestamp
                               > db'.messages[t.user_msg_id].timestamp
            /\ b \in (Active \ {"SessionResolved"})
                => /\ b # "Committed" => t.user_msg_id \in DOMAIN t.fl.messages
                   /\ OverlayStore(db', t.fl).messages[t.user_msg_id].sender = "user"
            /\ b = "SessionResolved" => t.user_msg_id = 0 /\ t.fl = EmptyStore
            /\ b \in {"SessionResolved", "UserMessageStored"} => t.chat_history = <<>>
            /\ b \in ((Active \cup {"Done"}) \ {"SessionResolved", "UserMessageStored"})
                => /\ t.chat_history # <<>>
                   /\ t.chat_history[Len(t.chat_history)].id = t.user_msg_id
            /\ t.llm_calls <= 1
            /\ t.llm_calls = 1 => (b \in AfterAI \cup {"Error"} /\ ai_available')
            /\ (b \in AfterAI /\ ai_available')
                => /\ t.llm_calls = 1
                   /\ t.request.sent
                   /\ t.request.messages[Len(t.request.messages)]
                        = [role |-> "user", content |-> Prose(t.user_message)]
                   /\ Len(t.request.messages) <= Len(t.chat_history)
            /\ (b \in AfterAI /\ ~ai_available') => t.llm_calls = 0 /\ ~t.request.sent
            /\ (t.db_user_id # 0 \/ t.orm.new_assessments # <<>>
                   \/ t.fl.assessments # NoRows \/ t.fl.users # NoRows)
                => /\ b \in {"AssessmentHandled", "AssistantMessageStored",
                             "Committed", "Done"}
                   /\ t.is_assessment_complete /\ t.has_payload
            /\ replies # {}
                => /\ b = "AssistantMessageStored"
                   /\ Cardinality(replies) = 1
                   /\ t.fl.messages = [k \in {t.user_msg_id} |-> t.fl.messages[k]]]_vars

\* a turn is done that recorded an assessment after one call of the model
\* on a session that had messages before
C21_Witness ==
    /\ tx[1].pc = "Done"
    /\ tx[1].llm_calls = 1
    /\ tx[1].db_user_id # 0
    /\ Len(tx[1].chat_history) = 3
    /\ SessionAssessments(db, tx[1].session_id) # {}

\* C22 as claimed: in a turn the stored user message holds the sanitized
\* input, the current message sent to the model is that same sanitized
\* text, and the reply of the assistant is stored as the gateway gave it.
C22_SanitizedEverywhere ==
    \A p \in Procs :
        LET clean == Prose(sanitize_string(tx[p].user_message, SanitizeMaxLength))
        IN /\ (tx[p].pc \in AfterAI /\ tx[p].pc \notin {"Committed", "Done"})
               => tx[p].fl.messages[tx[p].user_msg_id].content = clean
           /\ (tx[p].pc \in AfterAI /\ tx[p].request.sent)
               => tx[p].request.messages[Len(tx[p].request.messages)].content
                    = clean
           /\ tx[p].pc = "Done"
               => StoredUserAndReply(p, tx[p].response_content)

\* C23: after a committed assessment turn naming user N the one User row
\* named N holds the profile fields of that assessment's summary and
\* nothing of an earlier one: each field is the summary's, absent ones
\* null, and age is the integer of a string of digits, else null.
C23_LastAssessmentWins ==
    \A p \in Procs :
        (/\ tx[p].pc = "Done"
         /\ tx[p].out.is_assessment_complete
         /\ tx[p].out.recommendation_payload.name # <<>>)
        => LET s == tx[p].out.recommendation_payload
               named == {k \in DOMAIN db.users : db.users[k].name = s.name}
               digits == /\ s.age.some /\ s.age.v # <<>>
                         /\ \A i \in 1..Len(s.age.v) :
                               s.age.v[i] \in {"0", "1", "2", "3", "4", "5",
                                                "6", "7", "8", "9"}
           IN /\ Cardinality(named) = 1
              /\ \A k \in named :
                    /\ db.users[k].education_level = s.education_level
                    /\ db.users[k].technical_knowledge = s.technical_knowledge
                    /\ db.users[k].top_subjects = s.top_subjects
                    /\ db.users[k].subject_aspects = s.subject_aspects
                    /\ db.users[k].interests_dreams = s.interests_dreams
                    /\ db.users[k].age.some = digits
                    /\ digits => db.users[k].age.v = StrToInt(s.age.v)
                    /\ s.age = OptSome(<<"1", "7">>) => db.users[k].age.v = 17
                    /\ k = tx[p].db_user_id
                    /\ db.sessions[tx[p].session_id].user_id = k

\* a second assessment naming A, with age "x" and no education level, was
\* committed over a User row that held age 17 and an education level
C23_Witness ==
    /\ tx[1].pc = "Done"
    /\ tx[1].out.is_assessment_complete
    /\ tx[1].out.recommendation_payload.name = NameA
    /\ ~tx[1].out.recommendation_payload.education_level.some
    /\ \E k \in DOMAIN tx[1].before.users :
          /\ tx[1].before.users[k].name = NameA
          /\ tx[1].before.users[k].age = [some |-> TRUE, v |-> 17]
          /\ tx[1].before.users[k].education_level.some
          /\ ~db.users[k].age.some
          /\ ~db.users[k].education_level.some

\* C24: a turn whose assessment has an empty user_summary.name adds or
\* changes no User row, adds no Assessment row and leaves the user
\* reference of the Session as it was; it fails at no step because of the
\* empty name, and once done it has committed the user message and the
\* message of the assistant and returned normally.
C24_NamelessAssessment ==
    [][\A p \in Procs :
         LET t == tx[p]
             u == tx'[p]
             sid == u.session_id
             nameless(x) ==
                 /\ x.pc \in {"AIResponded", "AssessmentHandled",
                              "AssistantMessageStored", "Committed", "Done"}
                 /\ x.is_assessment_complete /\ x.has_payload
                 /\ x.recommendation_payload.name = <<>>
         IN /\ (nameless(t) /\ u.pc = "Error") => u.error = "Exception"
            /\ nameless(u)
               => /\ u.db_user_id = 0
                  /\ u.fl.users = NoRows /\ u.fl.assessments = NoRows
                  /\ u.orm.users = NoRows /\ u.orm.new_users = <<>>
                  /\ u.orm.new_assessments = <<>>
                  /\ \A store \in {u.fl.sessions, u.orm.sessions} :
                        sid \in DOMAIN store
                        => store[sid].user_id =
                             IF sid \in DOMAIN u.before.sessions
                             THEN u.before.sessions[sid].user_id ELSE 0
                  /\ db'.users = u.before.users
                  /\ db'.assessments = u.before.assessments
                  /\ u.pc \in {"Committed", "Done"}
                     => db'.sessions[sid].user_id =
                          IF sid \in DOMAIN u.before.sessions
                          THEN u.before.sessions[sid].user_id ELSE 0
            /\ (nameless(u) /\ u.pc = "Done")
               => /\ u.out.status = "ok"
                  /\ \E m, a \in DOMAIN db'.messages \ DOMAIN u.before.messages :
                        /\ db'.messages[m].sender = "user"
                        /\ db'.messages[m].session_id = sid
                        /\ db'.messages[m].content =
                              Prose(sanitize_string(u.user_message,
                                                    SanitizeMaxLength))
                        /\ db'.messages[a].sender = "devy"
                        /\ db'.messages[a].session_id = sid
                        /\ db'.messages[a].content = AckText]_vars

\* a turn with a nameless assessment is done on a session that an earlier
\* assessment had linked to a user
C24_Witness ==
    /\ tx[1].pc = "Done"
    /\ tx[1].is_assessment_complete
    /\ tx[1].recommendation_payload.name = <<>>
    /\ tx[1].session_id \in DOMAIN tx[1].before.sessions
    /\ tx[1].before.sessions[tx[1].session_id].user_id # 0
    /\ db.sessions[tx[1].session_id].user_id # 0

\* C25: an assessment that reaches _save_assessment is stored whatever the
\* validation of its dictionary reports: the turn holds the Assessment row
\* with the payload as it came, also when the validation found errors (as
\* it does when there are not six recommendations), and once the turn is
\* done that row is the committed Assessment of the session.
C25_StoredDespiteValidation ==
    \A p \in Procs :
        (/\ tx[p].pc \in {"AssessmentHandled", "AssistantMessageStored",
                          "Committed", "Done"}
         /\ tx[p].db_user_id # 0)
        => LET row == AssessmentRow(tx[p].session_id, tx[p].db_user_id,
                                    tx[p].recommendation_payload)
           IN /\ (tx[p].assessment_errors # {})
                 = (Len(tx[p].recommendation_payload.scores) # NumCareerPaths)
              /\ tx[p].pc \in {"AssessmentHandled", "AssistantMessageStored"}
                 => tx[p].orm.new_assessments = <<row>>
              /\ tx[p].pc \in {"Committed", "Done"}
                 => \E k \in DOMAIN db.assessments \ DOMAIN tx[p].before.assessments :
                       db.assessments[k] = row
              /\ tx[p].pc = "Done"
                 => (tx[p].out.status = "ok" /\ tx[p].out.is_assessment_complete)

\* a turn is done whose assessment had five recommendations: the
\* validation reported the count and the row is in the store
C25_Witness ==
    /\ tx[1].pc = "Done"
    /\ tx[1].db_user_id # 0
    /\ \E e \in tx[1].assessment_errors : e.kind = "count"
    /\ \E k \in DOMAIN db.assessments :
          /\ db.assessments[k].session_id = tx[1].session_id
          /\ Len(db.assessments[k].assessment_data.scores) = NumCareerPaths - 1

\* C26: the Assessment row of a session, once committed, is never changed,
\* replaced or deleted: every step leaves each committed Assessment as it
\* is and gives a session that has one no other.
C26_AssessmentImmutable ==
    [][/\ \A k \in DOMAIN db.assessments :
             /\ k \in DOMAIN db'.assessments
             /\ db'.assessments[k] = db.assessments[k]
       /\ \A sid \in Tokens :
             SessionAssessments(db, sid) # {}
             => SessionAssessments(db', sid) = SessionAssessments(db, sid)]_vars

\* a later turn on a session that has an Assessment got a valid assessment
\* from the model again, and its commit was refused
C26_Witness ==
    /\ tx[1].pc = "Error"
    /\ tx[1].failed_at = "AssistantMessageStored"
    /\ tx[1].error = "IntegrityError"
    /\ \E k \in DOMAIN db.assessments :
          /\ db.assessments[k].session_id = tx[1].session_id
          /\ db.assessments[k] = tx[1].before.assessments[k]

\* C27 as claimed: when process_message returns is_assessment_complete
\* with a payload, the turn committed an Assessment row for its session.
C27_CompleteMeansStored ==
    \A p \in Procs :
        (/\ tx[p].pc = "Done"
         /\ tx[p].out.is_assessment_complete
         /\ tx[p].out.has_payload)
        => \E k \in DOMAIN db.assessments \ DOMAIN tx[p].before.assessments :
              db.assessments[k].session_id = tx[p].session_id

\* C28: in every committed state a Session refers to a user if and only
\* if it has an Assessment row, that row refers to the same user, and
\* every Assessment belongs to a Session of the store.
C28_LinkedIffAssessed ==
    /\ \A sid \in DOMAIN db.sessions :
          /\ (db.sessions[sid].user_id # 0) = (SessionAssessments(db, sid) # {})
          /\ \A k \in SessionAssessments(db, sid) :
                /\ db.assessments[k].user_id = db.sessions[sid].user_id
                /\ db.assessments[k].user_id \in DOMAIN db.users
    /\ \A k \in DOMAIN db.assessments :
          db.assessments[k].session_id \in DOMAIN db.sessions

\* an assessment turn is done on one session while the store also holds
\* a session without user and without assessment
C28_Witness ==
    /\ tx[1].pc = "Done"
    /\ tx[1].db_user_id # 0
    /\ db.sessions[tx[1].session_id].user_id = tx[1].db_user_id
    /\ \E sid \in DOMAIN db.sessions :
          db.sessions[sid].user_id = 0 /\ SessionAssessments(db, sid) = {}

\* C29 as claimed: with two turns of different sessions interleaved, each
\* in its own transaction, the committed store never holds two User rows
\* of the same name.
C29_NoDuplicateUserWhenConcurrent ==
    \A j, k \in DOMAIN db.users :
        (j # k /\ db.users[j].name # <<>>) => db.users[j].name # db.users[k].name

\* C30 as claimed: the content stored for a message that
\* validate_user_message accepted is never empty.
C30_AcceptedNeverEmpty ==
    (pf.fn = "validate_user_message" /\ pf.phase = "stored") => pf.out # <<>>

====
